---- MODULE Spec2Model ----
(***************************************************************************)
(* A model of mcdev-mcp: the call-graph ingestor and query layer           *)
(* (src/callgraph), the symbol-index builder (src/indexer) and the index   *)
(* store (src/storage).                                                    *)
(*                                                                         *)
(* Text is modelled as a sequence of one-character strings, so that        *)
(* splitting, concatenation and pattern matching are computed, not         *)
(* assumed.  A dump line is the sequence of its TAB-separated fields       *)
(* (String.split('\t') is a bijection between strings and non-empty        *)
(* sequences of TAB-free strings).                                         *)
(***************************************************************************)
EXTENDS Integers, Sequences, FiniteSets, TLC

VARIABLES
  dumpFile,    \* the lines of the call-graph dump method_call.txt
  storeFile,   \* version -> the callgraph.db file at getCallgraphDbPath(version)
  ensuring,    \* the ensureCallgraph call suspended in generateCallgraph
  db,          \* query.ts: the module-level read handle
  lastOp,      \* the last call of the call-graph API: arguments and outcome
  probe,       \* the components of the dump line given to the line parser
  parsed,      \* what the loop body of the ingestor made of that line
  sourceFiles, \* the decompiled Java files on disk
  build,       \* the buildIndex run in flight, or the last one completed
  manifestFile, \* the index manifest manifest.json
  shardFiles,  \* <<namespace, package>> -> the shard file of the package
  store,       \* the SourceStore: memoized manifest and packageCache
  idxOp,       \* the last event on the index: a call's arguments and outcome
  faults,      \* the files deleted or damaged outside the program so far
  tools,       \* tools/index.ts: isInitialized, initPromise and the tool calls
  parserIn,    \* the declaration given to the Java parser
  parserOut    \* what the parser made of it

cgVars == <<dumpFile, storeFile, ensuring, db, lastOp>>
lineVars == <<probe, parsed>>
idxVars ==
  <<sourceFiles, build, manifestFile, shardFiles, store, idxOp, faults>>
toolVars == <<tools>>
parserVars == <<parserIn, parserOut>>
vars == <<cgVars, lineVars, idxVars, toolVars, parserVars>>

\* The variables outside the call-graph store, outside the line parser and
\* outside the class index.
notCg == <<lineVars, idxVars, toolVars, parserVars>>
notLine == <<cgVars, idxVars, toolVars, parserVars>>
notIdx == <<cgVars, lineVars, toolVars, parserVars>>
notParser == <<cgVars, lineVars, idxVars, toolVars>>

-----------------------------------------------------------------------------
(* Bounds *)

MaxDumpLen == 4
BatchSize == 2

\* Index or source files lost outside the program in one run.
MaxFaults == 1

\* Tool calls in flight at once, and the initialisations counted.
MaxCallers == 3
MaxStarts == 2

Versions == {"v1", "v2"}

-----------------------------------------------------------------------------
(* Text helpers *)

Min(a, b) == IF a < b THEN a ELSE b
Max(a, b) == IF a > b THEN a ELSE b

Whitespace == {" ", "\t", "\r", "\n"}
Digits == {"0", "1", "2", "3", "4", "5", "6", "7", "8", "9"}
UpperCase ==
  {"A", "B", "C", "D", "E", "F", "G", "H", "I", "J", "K", "L", "M",
   "N", "O", "P", "Q", "R", "S", "T", "U", "V", "W", "X", "Y", "Z"}
LineTerminators == {"\n", "\r"}

\* JavaScript's `.` matches every character but a line terminator.
Dot(c) == c \notin LineTerminators

AllIn(s, S) == \A k \in 1..Len(s) : s[k] \in S

Positions(s, c) == {k \in 1..Len(s) : s[k] = c}

SetMax(S) == CHOOSE x \in S : \A y \in S : y <= x
SetMin(S) == CHOOSE x \in S : \A y \in S : x <= y

-----------------------------------------------------------------------------
(* src/callgraph/index.ts: the token patterns of parseCallgraphAndCreateDb *)

NoMatch == [ok |-> FALSE, g1 |-> <<>>, g2 |-> <<>>, g3 |-> <<>>]

\* The positions at which group 3 of /(.+)(\([^)]*\))$/ can start in r: an
\* opening parenthesis after at least one character, closed by the last
\* character of r with no other closing parenthesis in between.
TailStarts(r) ==
  {j \in 2..(Len(r) - 1) :
     /\ r[j] = "("
     /\ r[Len(r)] = ")"
     /\ \A k \in (j + 1)..(Len(r) - 1) : r[k] # ")"
     /\ \A k \in 1..(j - 1) : Dot(r[k])}

\* The positions of the colon that ends group 1 of /^(.+):(.+)(\([^)]*\))$/.
ColonStarts(s) ==
  {i \in 2..Len(s) :
     /\ s[i] = ":"
     /\ \A k \in 1..(i - 1) : Dot(s[k])
     /\ TailStarts(SubSeq(s, i + 1, Len(s))) # {}}

\* callerRaw.match(/^(.+):(.+)(\([^)]*\))$/): both (.+) are greedy, so group 1
\* ends at the last colon that leaves a match and group 2 at the last
\* parenthesis that does.
MatchCaller(s) ==
  IF ColonStarts(s) = {} THEN NoMatch
  ELSE LET i == SetMax(ColonStarts(s))
           r == SubSeq(s, i + 1, Len(s))
           j == SetMax(TailStarts(r))
       IN [ok |-> TRUE,
           g1 |-> SubSeq(s, 1, i - 1),
           g2 |-> SubSeq(r, 1, j - 1),
           g3 |-> SubSeq(r, j, Len(r))]

\* Length of the run of upper-case letters of s that starts at position p.
RECURSIVE UpperRun(_, _)
UpperRun(s, p) ==
  IF p <= Len(s) /\ s[p] \in UpperCase THEN 1 + UpperRun(s, p + 1) ELSE 0

\* Mutant: the callee is matched with the caller's pattern, which keeps the
\* (CALLTYPE) prefix in the class.
MatchCalleeKeepType(s) == MatchCaller(s)

\* calleeRaw.match(/^\([A-Z]+\)(.+):(.+)(\([^)]*\))$/)
MatchCallee(s) ==
  LET n == UpperRun(s, 2)
  IN IF /\ Len(s) >= n + 2
        /\ s[1] = "("
        /\ n >= 1
        /\ s[n + 2] = ")"
     THEN MatchCaller(SubSeq(s, n + 3, Len(s)))
     ELSE NoMatch

DigitValue(c) ==
  CASE c = "0" -> 0 [] c = "1" -> 1 [] c = "2" -> 2 [] c = "3" -> 3
    [] c = "4" -> 4 [] c = "5" -> 5 [] c = "6" -> 6 [] c = "7" -> 7
    [] c = "8" -> 8 [] c = "9" -> 9

\* Length of the run of characters of S in s that starts at position p.
RECURSIVE RunLen(_, _, _)
RunLen(s, p, S) ==
  IF p <= Len(s) /\ s[p] \in S THEN 1 + RunLen(s, p + 1, S) ELSE 0

RECURSIVE DecimalValue(_)
DecimalValue(s) ==
  IF s = <<>> THEN 0
  ELSE 10 * DecimalValue(SubSeq(s, 1, Len(s) - 1)) + DigitValue(s[Len(s)])

\* A line_number value: <<"int", n>>, <<"nan", 0>> or <<"null", 0>>.
NullLine == <<"null", 0>>
NaNLine == <<"nan", 0>>

\* parseInt(s, 10): leading white space, an optional sign, then the longest
\* run of digits; NaN when there is no digit.
ParseInt(s) ==
  LET w == RunLen(s, 1, Whitespace)
      neg == w + 1 <= Len(s) /\ s[w + 1] = "-"
      sg == IF w + 1 <= Len(s) /\ s[w + 1] \in {"-", "+"} THEN 1 ELSE 0
      d == RunLen(s, w + sg + 1, Digits)
      v == DecimalValue(SubSeq(s, w + sg + 1, w + sg + d))
  IN IF d = 0 THEN NaNLine ELSE <<"int", IF neg THEN 0 - v ELSE v>>

\* line.trim() is empty: every character of the line is white space.
IsBlank(line) == \A f \in 1..Len(line) : AllIn(line[f], Whitespace)

\* Mutant: the comment test is missing.
StartsWithHashNever(line) == FALSE

StartsWithHash(line) == Len(line[1]) > 0 /\ line[1][1] = "#"

Skip == [ok |-> FALSE, rec |-> <<>>]

\* One iteration of the loop over the lines: the record pushed on the batch,
\* or Skip.
ParseLine(line) ==
  IF IsBlank(line) \/ StartsWithHash(line) THEN Skip
  ELSE IF Len(line) < 5 THEN Skip
  ELSE LET callerMatch == MatchCaller(line[3])
           calleeMatch == MatchCallee(line[4])
           lineNumber == IF line[5] # <<>> THEN ParseInt(line[5]) ELSE NullLine
       IN IF callerMatch.ok /\ calleeMatch.ok
          THEN [ok |-> TRUE,
                rec |-> <<callerMatch.g1, callerMatch.g2, callerMatch.g3,
                          calleeMatch.g1, calleeMatch.g2, calleeMatch.g3,
                          lineNumber>>]
          ELSE Skip

\* Column accessors of a row of table `calls`.
caller_class(r) == r[1]
caller_method(r) == r[2]
caller_desc(r) == r[3]
callee_class(r) == r[4]
callee_method(r) == r[5]
callee_desc(r) == r[6]
line_number(r) == r[7]

-----------------------------------------------------------------------------
(* src/callgraph/index.ts: ingestion *)

NoFile == [exists |-> FALSE, rows |-> <<>>]

\* hasCallgraphDb(version): fs.existsSync(getCallgraphDbPath(version))
hasCallgraphDb(version) == storeFile[version].exists

\* insertMany(batch): one transaction that appends the items, in order, to
\* table `calls` (the row id is the position in the sequence).
insertMany(rows, items) == rows \o items

\* The loop of parseCallgraphAndCreateDb over lines[i..], with `batch`
\* pending, `count` rows counted and run.rows committed in the batches of
\* sizes run.batches.  failAt = k > 0 makes
\* the k-th call of insertMany from here fail (an I/O failure): its
\* transaction is rolled back and the exception leaves the function.
RECURSIVE IngestLoop(_, _, _, _, _, _)
IngestLoop(lines, i, batch, count, run, failAt) ==
  IF i > Len(lines)
  THEN IF Len(batch) > 0
       THEN IF failAt = 1
            THEN [run EXCEPT !.threw = TRUE, !.count = count]
            ELSE [run EXCEPT !.rows = insertMany(run.rows, batch),
                             !.batches = Append(run.batches, Len(batch)),
                             !.count = count + Len(batch)]
       ELSE [run EXCEPT !.count = count]
  ELSE LET p == ParseLine(lines[i])
           pushed == Append(batch, p.rec)
       IN IF ~p.ok
          THEN IngestLoop(lines, i + 1, batch, count, run, failAt)
          ELSE IF Len(pushed) >= BatchSize
          THEN IF failAt = 1
               THEN [run EXCEPT !.threw = TRUE, !.count = count]
               ELSE IngestLoop(lines, i + 1, <<>>, count + Len(pushed),
                               [run EXCEPT
                                  !.rows = insertMany(run.rows, pushed),
                                  !.batches = Append(run.batches, Len(pushed))],
                               Max(0, failAt - 1))
          ELSE IngestLoop(lines, i + 1, pushed, count, run, failAt)

\* The database right after `new Database(dbPath)` and CREATE TABLE.
\* The one db.exec creates the table and, with it, the two indexes:
\* indexes |-> the indexes of the database, indexedAfter |-> the number of
\* batches committed when they were created.
FreshDb ==
  [threw |-> FALSE, rows |-> <<>>, batches |-> <<>>, count |-> 0,
   indexes |-> {"idx_callee", "idx_caller"}, indexedAfter |-> 0]

\* The body of parseCallgraphAndCreateDb after the database is created.
Ingest(lines, failAt) == IngestLoop(lines, 1, <<>>, 0, FreshDb, failAt)

\* Mutant: the existing file is not unlinked and its table is reused.
CreateDbKeepOld(old, lines, failAt) ==
  [exists |-> TRUE, rows |-> old.rows \o Ingest(lines, failAt).rows]

\* The store file parseCallgraphAndCreateDb leaves at dbPath, whatever was
\* there before: an existing file is unlinked, a new database is created with
\* table `calls`, and the batches are committed into it.
CreateDb(old, lines, failAt) ==
  [exists |-> TRUE, rows |-> Ingest(lines, failAt).rows]

\* Number of calls of insertMany that ingesting `lines` makes.
NumFlushes(lines) ==
  LET n == Cardinality({i \in 1..Len(lines) : ParseLine(lines[i]).ok})
  IN (n \div BatchSize) + (IF n % BatchSize > 0 THEN 1 ELSE 0)

NoOp ==
  [op |-> "none", ver |-> "none", args |-> <<>>, status |-> "none",
   rows |-> <<>>, refs |-> {}, count |-> 0, batches |-> <<>>,
   indexes |-> {}, indexedAfter |-> 0,
   stats |-> <<0, 0, 0>>, read |-> <<>>, prior |-> NoFile]

\* parseCallgraphAndCreateDb(version, callgraphFile): synchronous, so one step.
ParseCallgraphAndCreateDb(Vs, Dumps) ==
  \E version \in Vs, lines \in Dumps :
    \E failAt \in 0..NumFlushes(lines) :
      LET run == Ingest(lines, failAt)
      IN /\ storeFile' = [storeFile EXCEPT
                            ![version] = CreateDb(storeFile[version], lines, failAt)]
         /\ lastOp' = [NoOp EXCEPT !.op = "parse", !.ver = version,
                         !.args = <<lines>>,
                         !.status = IF run.threw THEN "threw" ELSE "returned",
                         !.count = run.count, !.batches = run.batches,
                         !.indexes = run.indexes,
                         !.indexedAfter = run.indexedAfter,
                         !.prior = storeFile[version]]
         /\ UNCHANGED <<dumpFile, ensuring, db, notCg>>

NotEnsuring == [pc |-> "idle", ver |-> "none"]

\* ensureCallgraph(version) up to `await generateCallgraph(...)`.
EnsureCallgraphBegin ==
  \E version \in Versions :
    /\ ensuring.pc = "idle"
    /\ IF hasCallgraphDb(version)
       THEN /\ lastOp' = [NoOp EXCEPT !.op = "ensure", !.ver = version,
                            !.status = "ready"]
            /\ UNCHANGED ensuring
       ELSE /\ ensuring' = [pc |-> "generating", ver |-> version]
            /\ lastOp' = [NoOp EXCEPT !.op = "ensure", !.ver = version,
                            !.status = "generating"]
    /\ UNCHANGED <<dumpFile, storeFile, db, notCg>>

\* generateCallgraph resolved with the dump: ensureCallgraph ingests it.
EnsureCallgraphParse(Dumps) ==
  \E lines \in Dumps :
    \E failAt \in 0..NumFlushes(lines) :
      LET version == ensuring.ver
          run == Ingest(lines, failAt)
      IN /\ ensuring.pc = "generating"
         /\ storeFile' = [storeFile EXCEPT
                            ![version] = CreateDb(storeFile[version], lines, failAt)]
         /\ ensuring' = NotEnsuring
         /\ lastOp' = [NoOp EXCEPT !.op = "parse", !.ver = version,
                         !.args = <<lines>>,
                         !.status = IF run.threw THEN "threw" ELSE "returned",
                         !.count = run.count, !.batches = run.batches,
                         !.indexes = run.indexes,
                         !.indexedAfter = run.indexedAfter,
                         !.prior = storeFile[version]]
         /\ UNCHANGED <<dumpFile, db, notCg>>

\* generateCallgraph rejected (the external tool failed): ensureCallgraph
\* rejects without ingesting.
EnsureCallgraphRejected ==
  /\ ensuring.pc = "generating"
  /\ ensuring' = NotEnsuring
  /\ lastOp' = [NoOp EXCEPT !.op = "ensure", !.ver = ensuring.ver,
                  !.status = "rejected"]
  /\ UNCHANGED <<dumpFile, storeFile, db, notCg>>

-----------------------------------------------------------------------------
(* src/callgraph/query.ts *)

FindLimit == 100
SearchDefaultLimit == 50

Closed == [open |-> FALSE, ver |-> "none", rows |-> <<>>]

\* openDb(version): the handle it returns, or the error it throws.  A handle
\* keeps reading the file it was opened on, also after that file is unlinked.
openDb(version) ==
  IF db.open THEN [err |-> FALSE, handle |-> db]
  ELSE IF ~storeFile[version].exists THEN [err |-> TRUE, handle |-> db]
  ELSE [err |-> FALSE,
        handle |-> [open |-> TRUE, ver |-> version,
                    rows |-> storeFile[version].rows]]

\* Mutant: the statement has no LIMIT.
TakeAll(s, n) == s

\* LIMIT n on the rows a statement selects.
Take(s, n) == SubSeq(s, 1, Min(Len(s), n))

\* A MethodRef: <<className, methodName, descriptor, fullName, lineNumber>>
CallerRef(r) ==
  <<caller_class(r), caller_method(r), caller_desc(r),
    caller_class(r) \o <<".">> \o caller_method(r), line_number(r)>>

CalleeRef(r) ==
  <<callee_class(r), callee_method(r), callee_desc(r),
    callee_class(r) \o <<".">> \o callee_method(r), line_number(r)>>

\* SELECT caller_* FROM calls WHERE callee_class = ? AND callee_method = ?
\* LIMIT 100, mapped to MethodRefs.
CallersOf(rows, className, methodName) ==
  LET Hit(r) == callee_class(r) = className /\ callee_method(r) = methodName
      hits == Take(SelectSeq(rows, Hit), FindLimit)
  IN [k \in 1..Len(hits) |-> CallerRef(hits[k])]

CalleesOf(rows, className, methodName) ==
  LET Hit(r) == caller_class(r) = className /\ caller_method(r) = methodName
      hits == Take(SelectSeq(rows, Hit), FindLimit)
  IN [k \in 1..Len(hits) |-> CalleeRef(hits[k])]

findCallers(keys) ==
  \E version \in Versions, key \in keys :
    LET o == openDb(version)
    IN /\ IF o.err
          THEN /\ lastOp' = [NoOp EXCEPT !.op = "findCallers", !.ver = version,
                               !.args = key, !.status = "notfound"]
               /\ UNCHANGED <<dumpFile, db, notCg>>
          ELSE /\ db' = o.handle
               /\ lastOp' = [NoOp EXCEPT !.op = "findCallers", !.ver = version,
                               !.args = key, !.status = "ok",
                               !.rows = CallersOf(o.handle.rows, key[1], key[2]),
                               !.read = o.handle.rows]
       /\ UNCHANGED <<dumpFile, storeFile, ensuring, notCg>>

findCallees(keys) ==
  \E version \in Versions, key \in keys :
    LET o == openDb(version)
    IN /\ IF o.err
          THEN /\ lastOp' = [NoOp EXCEPT !.op = "findCallees", !.ver = version,
                               !.args = key, !.status = "notfound"]
               /\ UNCHANGED <<dumpFile, db, notCg>>
          ELSE /\ db' = o.handle
               /\ lastOp' = [NoOp EXCEPT !.op = "findCallees", !.ver = version,
                               !.args = key, !.status = "ok",
                               !.rows = CalleesOf(o.handle.rows, key[1], key[2]),
                               !.read = o.handle.rows]
       /\ UNCHANGED <<dumpFile, storeFile, ensuring, notCg>>

LowerOf ==
  [c \in UpperCase |->
     CASE c = "A" -> "a" [] c = "B" -> "b" [] c = "C" -> "c" [] c = "D" -> "d"
       [] c = "E" -> "e" [] c = "F" -> "f" [] c = "G" -> "g" [] c = "H" -> "h"
       [] c = "I" -> "i" [] c = "J" -> "j" [] c = "K" -> "k" [] c = "L" -> "l"
       [] c = "M" -> "m" [] c = "N" -> "n" [] c = "O" -> "o" [] c = "P" -> "p"
       [] c = "Q" -> "q" [] c = "R" -> "r" [] c = "S" -> "s" [] c = "T" -> "t"
       [] c = "U" -> "u" [] c = "V" -> "v" [] c = "W" -> "w" [] c = "X" -> "x"
       [] c = "Y" -> "y" [] c = "Z" -> "z"]

LowerChar(c) == IF c \in UpperCase THEN LowerOf[c] ELSE c

\* String.prototype.toLowerCase on the characters of the model.
ToLower(s) == [k \in 1..Len(s) |-> LowerChar(s[k])]

\* SQLite's `s LIKE pattern`: % matches any run of characters, _ any one
\* character, every other character itself ignoring ASCII case.
RECURSIVE Like(_, _)
Like(s, pattern) ==
  IF pattern = <<>> THEN s = <<>>
  ELSE IF Head(pattern) = "%"
       THEN \E k \in 0..Len(s) : Like(SubSeq(s, k + 1, Len(s)), Tail(pattern))
  ELSE IF s = <<>> THEN FALSE
  ELSE /\ Head(pattern) = "_" \/ LowerChar(Head(pattern)) = LowerChar(Head(s))
       /\ Like(Tail(s), Tail(pattern))

\* The rows of the UNION of searchMethods: the distinct (class, method,
\* descriptor) triples of either side whose class or method is LIKE %query%.
SearchHits(rows, query) ==
  LET pattern == <<"%">> \o query \o <<"%">>
  IN {<<callee_class(rows[k]), callee_method(rows[k]), callee_desc(rows[k])>> :
        k \in {i \in 1..Len(rows) :
                 \/ Like(callee_class(rows[i]), pattern)
                 \/ Like(callee_method(rows[i]), pattern)}}
     \cup
     {<<caller_class(rows[k]), caller_method(rows[k]), caller_desc(rows[k])>> :
        k \in {i \in 1..Len(rows) :
                 \/ Like(caller_class(rows[i]), pattern)
                 \/ Like(caller_method(rows[i]), pattern)}}

SearchRef(t) == <<t[1], t[2], t[3], t[1] \o <<".">> \o t[2]>>

\* searchMethods(version, query, limit): LIMIT without ORDER BY keeps any
\* `limit` of the rows, so the result is one of the subsets of that size.
searchMethods(queries, limits) ==
  \E version \in Versions, query \in queries, limit \in limits :
    LET o == openDb(version)
    IN /\ IF o.err
          THEN /\ lastOp' = [NoOp EXCEPT !.op = "searchMethods", !.ver = version,
                               !.args = <<query, limit>>, !.status = "notfound"]
               /\ UNCHANGED <<dumpFile, db, notCg>>
          ELSE \E kept \in SUBSET SearchHits(o.handle.rows, query) :
                 /\ Cardinality(kept) =
                      Min(limit, Cardinality(SearchHits(o.handle.rows, query)))
                 /\ db' = o.handle
                 /\ lastOp' = [NoOp EXCEPT !.op = "searchMethods",
                                 !.ver = version, !.args = <<query, limit>>,
                                 !.status = "ok",
                                 !.refs = {SearchRef(t) : t \in kept},
                                 !.read = o.handle.rows]
       /\ UNCHANGED <<dumpFile, storeFile, ensuring, notCg>>

\* COUNT(DISTINCT caller_class || caller_method): the number of distinct
\* concatenations.
CountDistinctCallers(rows) ==
  Cardinality({caller_class(rows[k]) \o caller_method(rows[k]) : k \in 1..Len(rows)})

CountDistinctCallees(rows) ==
  Cardinality({callee_class(rows[k]) \o callee_method(rows[k]) : k \in 1..Len(rows)})

\* getCallgraphStats(version): null without a store file, else the three
\* counts read through openDb, after which the handle is closed.
getCallgraphStats ==
  \E version \in Versions :
    /\ IF ~storeFile[version].exists
       THEN /\ lastOp' = [NoOp EXCEPT !.op = "stats", !.ver = version,
                            !.status = "null"]
            /\ UNCHANGED <<dumpFile, db, notCg>>
       ELSE LET database == openDb(version).handle
            IN /\ lastOp' = [NoOp EXCEPT !.op = "stats", !.ver = version,
                               !.status = "ok",
                               !.stats = <<Len(database.rows),
                                           CountDistinctCallers(database.rows),
                                           CountDistinctCallees(database.rows)>>,
                               !.read = database.rows]
               /\ db' = Closed
    /\ UNCHANGED <<dumpFile, storeFile, ensuring, notCg>>

-----------------------------------------------------------------------------
(* src/indexer/parser.ts: the type header *)

\* JavaScript's null where a name is expected: no sequence of characters.
NullName == <<"<null>">>

RECURSIVE Remove(_, _)
Remove(s, S) ==
  IF s = <<>> THEN <<>>
  ELSE IF Head(s) \in S THEN Remove(Tail(s), S)
  ELSE <<Head(s)>> \o Remove(Tail(s), S)

\* The characters of s before the first one in S.
RECURSIVE Before(_, _)
Before(s, S) ==
  IF s = <<>> \/ Head(s) \in S THEN <<>> ELSE <<Head(s)>> \o Before(Tail(s), S)

\* s.split(sep), sep one character.
RECURSIVE Split(_, _)
Split(s, sep) ==
  LET first == Before(s, {sep})
  IN IF Len(first) = Len(s) THEN <<s>>
     ELSE <<first>> \o Split(SubSeq(s, Len(first) + 2, Len(s)), sep)

\* parts.join(sep)
RECURSIVE Join(_, _)
Join(parts, sep) ==
  IF parts = <<>> THEN <<>>
  ELSE IF Len(parts) = 1 THEN parts[1]
  ELSE parts[1] \o <<sep>> \o Join(Tail(parts), sep)

RECURSIVE TrimLeft(_)
TrimLeft(s) ==
  IF s # <<>> /\ Head(s) \in Whitespace THEN TrimLeft(Tail(s)) ELSE s

RECURSIVE TrimRight(_)
TrimRight(s) ==
  IF s # <<>> /\ s[Len(s)] \in Whitespace
  THEN TrimRight(SubSeq(s, 1, Len(s) - 1)) ELSE s

Trim(s) == TrimRight(TrimLeft(s))

StartsWith(s, prefix) ==
  Len(s) >= Len(prefix) /\ SubSeq(s, 1, Len(prefix)) = prefix

\* cleanTypeName(type): generic and array markers and white space removed,
\* then the first dot segment; the type itself when that is empty.
cleanTypeName(type) ==
  LET first == Split(Remove(Remove(type, {"<", ">", "[", "]"}), Whitespace), ".")[1]
  IN IF first = <<>> THEN type ELSE first

\* Group 2 of the header pattern, extends\s+([^{<\s]+), on the supertype as
\* written: its characters up to a brace, an angle bracket or white space.
ExtendsCapture(written) == Before(written, {"{", "<"} \cup Whitespace)

\* The header pattern of parseJavaContent on a file that declares one type
\*   [modifiers] kind name [extends <ext>] [implements <impls>] {
\* After group 2 the pattern wants white space and `implements`, or the
\* brace: a supertype that group 2 does not take whole leaves no match.
\* And after the name, group 1 = (\w+), it wants white space or the brace:
\* type parameters written after the name leave no match either.
HeaderMatches(file) ==
  /\ file.params = <<>>
  /\ file.ext = <<>> \/ ExtendsCapture(file.ext) = file.ext

NoClass ==
  [ok |-> FALSE, packageName |-> <<>>, className |-> <<>>,
   info |-> [kind |-> "class", super |-> NullName, interfaces |-> <<>>,
             fields |-> <<>>, methods |-> <<>>, sourcePath |-> ""]]

\* parseJavaContent(content, filePath)
parseJavaContent(file) ==
  IF ~HeaderMatches(file) THEN NoClass
  ELSE LET superClass ==
             IF file.ext # <<>> THEN cleanTypeName(file.ext) ELSE NullName
           written == Split(file.impls, ",")
           cleaned == [k \in 1..Len(written) |-> cleanTypeName(Trim(written[k]))]
           interfaces ==
             IF file.impls # <<>>
             THEN SelectSeq(cleaned, LAMBDA n : n # <<>>)
             ELSE <<>>
       IN [ok |-> TRUE, packageName |-> file.pkg, className |-> file.name,
           info |-> [kind |-> file.kind, super |-> superClass,
                     interfaces |-> interfaces, fields |-> file.fields,
                     methods |-> file.methods, sourcePath |-> file.path]]

\* Nothing given to the parser yet.
NoUnit == [op |-> "none"]
NoParse == [op |-> "none"]
ParserIdle == parserIn = NoUnit /\ parserOut = NoParse

\* parseJavaContent on the declaration in parserIn.
parseHeader ==
  /\ parserIn.op = "header"
  /\ parserOut = NoParse
  /\ parserOut' = [op |-> "header", parsed |-> parseJavaContent(parserIn.file)]
  /\ UNCHANGED <<parserIn, notParser>>

-----------------------------------------------------------------------------
(* src/indexer/parser.ts: method parameters *)

\* The characters \w matches.
WordChars == UpperCase \cup {LowerOf[c] : c \in UpperCase} \cup Digits \cup {"_"}

\* Length of the run of characters of S in s that ends at position p.
RECURSIVE RunLenBack(_, _, _)
RunLenBack(s, p, S) ==
  IF p >= 1 /\ s[p] \in S THEN 1 + RunLenBack(s, p - 1, S) ELSE 0

\* Number of pairs [] in a row that end at position p of s.
RECURSIVE PairsBack(_, _)
PairsBack(s, p) ==
  IF p >= 2 /\ s[p - 1] = "[" /\ s[p] = "]" THEN 1 + PairsBack(s, p - 2)
  ELSE 0

\* The loop of splitParams from position i on.
RECURSIVE SplitParamsLoop(_, _, _, _, _)
SplitParamsLoop(s, i, depth, current, result) ==
  IF i > Len(s)
  THEN IF Trim(current) # <<>> THEN Append(result, current) ELSE result
  ELSE IF s[i] \in {"<", "("}
  THEN SplitParamsLoop(s, i + 1, depth + 1, Append(current, s[i]), result)
  ELSE IF s[i] \in {">", ")"}
  THEN SplitParamsLoop(s, i + 1, depth - 1, Append(current, s[i]), result)
  ELSE IF s[i] = "," /\ depth = 0
  THEN SplitParamsLoop(s, i + 1, depth, <<>>, Append(result, current))
  ELSE SplitParamsLoop(s, i + 1, depth, Append(current, s[i]), result)

\* splitParams(paramsStr)
splitParams(paramsStr) == SplitParamsLoop(paramsStr, 1, 0, <<>>, <<>>)

NoParam == [ok |-> FALSE, type |-> <<>>, name |-> <<>>]

\* trimmed.match(/(?:final\s+)?(\w+(?:<[^>]+>)?(?:\[\])*)\s+(\w+)$/): from
\* the end, group 2 is the last run of word characters, before it comes
\* white space, before that the [] pairs, and before those either a word
\* character or `>` closing type arguments that hold no other `>` and
\* follow a word character.  Group 1 starts with the leftmost word that
\* fits.
paramMatch(trimmed) ==
  LET n == RunLenBack(trimmed, Len(trimmed), WordChars)
      w == RunLenBack(trimmed, Len(trimmed) - n, Whitespace)
      arrayEnd == Len(trimmed) - n - w
      typeEnd == arrayEnd - 2 * PairsBack(trimmed, arrayEnd)
      opens == {b \in 2..(typeEnd - 2) :
                  /\ trimmed[b] = "<"
                  /\ trimmed[b - 1] \in WordChars
                  /\ \A j \in (b + 1)..(typeEnd - 1) : trimmed[j] # ">"}
      wordEnd ==
        IF typeEnd >= 1 /\ trimmed[typeEnd] \in WordChars THEN typeEnd
        ELSE IF typeEnd >= 1 /\ trimmed[typeEnd] = ">" /\ opens # {}
        THEN (CHOOSE b \in opens : \A c \in opens : b <= c) - 1
        ELSE 0
      wordStart == wordEnd - RunLenBack(trimmed, wordEnd, WordChars) + 1
  IN IF n >= 1 /\ w >= 1 /\ wordEnd >= 1
     THEN [ok |-> TRUE,
           type |-> cleanTypeName(SubSeq(trimmed, wordStart, arrayEnd)),
           name |-> SubSeq(trimmed, Len(trimmed) - n + 1, Len(trimmed))]
     ELSE NoParam

\* parseParams(paramsStr): the parts of splitParams that the pattern matches,
\* as <<type, name>>.
parseParams(paramsStr) ==
  IF Trim(paramsStr) = <<>> THEN <<>>
  ELSE LET parts == splitParams(paramsStr)
           matches == [k \in 1..Len(parts) |-> paramMatch(Trim(parts[k]))]
           kept == SelectSeq(matches, LAMBDA m : m.ok)
       IN [k \in 1..Len(kept) |-> <<kept[k].type, kept[k].name>>]

\* Group 3 of the method pattern, \(([^)]*)\), followed by the brace: a
\* parameter list is taken when no parenthesis closes inside it.
MethodRegexTakes(paramsStr) == \A k \in 1..Len(paramsStr) : paramsStr[k] # ")"

\* extractMethods on the declaration `void f(<paramsStr>) {`.
extractMethods ==
  /\ parserIn.op = "method"
  /\ parserOut = NoParse
  /\ parserOut' =
       [op |-> "method",
        methods |->
          IF MethodRegexTakes(parserIn.paramsStr)
          THEN <<[name |-> <<"f">>,
                  params |-> parseParams(parserIn.paramsStr)]>>
          ELSE <<>>]
  /\ UNCHANGED <<parserIn, notParser>>

-----------------------------------------------------------------------------
(* src/indexer/parser.ts: the lines of a method *)

\* content.substring(0, index).split('\n').length, index 0-based: the
\* 1-based line of the character at that index.
LineOfIndex(content, index) ==
  1 + Cardinality({k \in 1..index : content[k] = "\n"})

\* The loop of findMethodEnd at the 0-based index i; 0 stands for null.
RECURSIVE FindMethodEndLoop(_, _, _, _)
FindMethodEndLoop(content, i, braceCount, foundOpen) ==
  IF i >= Len(content) THEN 0
  ELSE IF content[i + 1] = "{"
  THEN FindMethodEndLoop(content, i + 1, braceCount + 1, TRUE)
  ELSE IF content[i + 1] = "}"
  THEN IF foundOpen /\ braceCount - 1 = 0
       THEN LineOfIndex(content, i)
       ELSE FindMethodEndLoop(content, i + 1, braceCount - 1, foundOpen)
  ELSE FindMethodEndLoop(content, i + 1, braceCount, foundOpen)

\* findMethodEnd(content, startIndex)
findMethodEnd(content, startIndex) ==
  FindMethodEndLoop(content, startIndex, 0, FALSE)

\* The text of a file around one method, in its pieces:
\*   before gap [annotation \n] [modifier] signature body after
UnitContent(unit) ==
  unit.before \o unit.gap \o unit.annotation
    \o (IF unit.annotation # <<>> THEN <<"\n">> ELSE <<>>)
    \o unit.modifier \o unit.signature \o unit.body \o unit.after

\* match.index of the method pattern: the pattern starts with the
\* annotations, then the access modifier, then \s*; so the match starts at
\* the annotation when there is one, else at the access modifier when there
\* is one, else at the white space before the return type.
MatchIndex(unit) ==
  IF unit.annotation # <<>> \/ unit.modifier # <<>>
  THEN Len(unit.before) + Len(unit.gap)
  ELSE Len(unit.before)

\* The 0-based index of the brace that opens the body.
BodyIndex(unit) == Len(UnitContent(unit)) - Len(unit.after) - Len(unit.body)

\* extractMethods on the file: lineStart and lineEnd of the method.
extractMethodLines ==
  /\ parserIn.op = "lines"
  /\ parserOut = NoParse
  /\ LET content == UnitContent(parserIn.unit)
         index == MatchIndex(parserIn.unit)
         lineStart == LineOfIndex(content, index)
         found == findMethodEnd(content, index)
     IN parserOut' = [op |-> "lines", lineStart |-> lineStart,
                      lineEnd |-> IF found # 0 THEN found ELSE lineStart + 10]
  /\ UNCHANGED <<parserIn, notParser>>

-----------------------------------------------------------------------------
(* src/indexer/parser.ts: the type header in the text of a file *)

\* The characters of content from the 1-based position p on begin with word.
At(content, p, word) ==
  /\ p + Len(word) - 1 <= Len(content)
  /\ SubSeq(content, p, p + Len(word) - 1) = word

\* The first position from p on whose character is not in S; Len + 1 when
\* there is none.
RECURSIVE RunEnd(_, _, _)
RunEnd(content, p, S) ==
  IF p <= Len(content) /\ content[p] \in S THEN RunEnd(content, p + 1, S)
  ELSE p

\* The first position from p on whose character is in S.
RECURSIVE RunEndNot(_, _, _)
RunEndNot(content, p, S) ==
  IF p <= Len(content) /\ content[p] \notin S
  THEN RunEndNot(content, p + 1, S)
  ELSE p

ClassWord == <<"c", "l", "a", "s", "s">>
InterfaceWord == <<"i", "n", "t", "e", "r", "f", "a", "c", "e">>
EnumWord == <<"e", "n", "u", "m">>
TypeWords == {ClassWord, InterfaceWord, EnumWord}

\* (?:w1|w2|..)\s+(\w+) with the keyword at p: where group 1 begins, 0 when
\* the pattern does not match there.
NameStart(content, p, words) ==
  IF \E w \in words :
       /\ At(content, p, w)
       /\ LET q == p + Len(w)
              r == RunEnd(content, q, Whitespace)
          IN r > q /\ r <= Len(content) /\ content[r] \in WordChars
  THEN LET w == CHOOSE w \in words : At(content, p, w)
       IN RunEnd(content, p + Len(w), Whitespace)
  ELSE 0

\* The least position of a keyword where the pattern matches, 0 when it
\* matches nowhere.  The optional modifiers before the keyword move the
\* start of the match, not the keyword it finds first.
FirstNamed(content, words) ==
  LET at == {p \in 1..Len(content) : NameStart(content, p, words) # 0}
  IN IF at = {} THEN 0 ELSE CHOOSE p \in at : \A q \in at : p <= q

\* extractClassName(content): group 1 of the first match of
\* (?:public\s+)?(?:abstract\s+|final\s+)?(?:class|interface|enum)\s+(\w+)
extractClassName(content) ==
  LET p == FirstNamed(content, TypeWords)
      r == NameStart(content, p, TypeWords)
  IN IF p = 0 THEN NullName
     ELSE SubSeq(content, r, RunEnd(content, r, WordChars) - 1)

\* extractClassKind(content): `interface\s+\w+` anywhere in the text, else
\* `enum\s+\w+` anywhere in the text, else class.
extractClassKind(content) ==
  IF FirstNamed(content, {InterfaceWord}) # 0 THEN "interface"
  ELSE IF FirstNamed(content, {EnumWord}) # 0 THEN "enum"
  ELSE "class"

NoHeader ==
  [ok |-> FALSE, hasExt |-> FALSE, ext |-> <<>>, hasImpl |-> FALSE,
   impls |-> <<>>]

\* (?:\s+extends\s+([^{<\s]+))? from the position after the name: whether
\* the group takes part in the match, group 2, and where the match goes on.
ExtendsAt(content, from) ==
  LET e1 == RunEnd(content, from, Whitespace)
      e3 == RunEnd(content, e1 + Len(<<"e", "x", "t", "e", "n", "d", "s">>), Whitespace)
      extEnd == RunEndNot(content, e3, {"{", "<"} \cup Whitespace)
  IN IF /\ e1 > from
        /\ At(content, e1, <<"e", "x", "t", "e", "n", "d", "s">>)
        /\ e3 > e1 + Len(<<"e", "x", "t", "e", "n", "d", "s">>)
        /\ extEnd > e3
     THEN [has |-> TRUE, text |-> SubSeq(content, e3, extEnd - 1),
           next |-> extEnd]
     ELSE [has |-> FALSE, text |-> <<>>, next |-> from]

\* (?:\s+implements\s+([^{{]+))?\s*\{ from the position after group 2: the
\* word is there or not, and with it group 3 runs up to the first brace;
\* when only white space stands before the brace, \s+ gives its last
\* character to group 3.
ImplementsAt(content, from) ==
  LET i1 == RunEnd(content, from, Whitespace)
      i3 == RunEnd(content, i1 + Len(<<"i", "m", "p", "l", "e", "m", "e", "n", "t", "s">>), Whitespace)
      brace == RunEndNot(content, i3, {"{"})
  IN IF /\ i1 > from
        /\ At(content, i1, <<"i", "m", "p", "l", "e", "m", "e", "n", "t", "s">>)
        /\ i3 > i1 + Len(<<"i", "m", "p", "l", "e", "m", "e", "n", "t", "s">>)
     THEN IF /\ brace <= Len(content)
             /\ brace > i3 \/ i3 - (i1 + Len(<<"i", "m", "p", "l", "e", "m", "e", "n", "t", "s">>)) >= 2
          THEN [ok |-> TRUE, has |-> TRUE,
                text |-> SubSeq(content, IF brace > i3 THEN i3 ELSE i3 - 1,
                                brace - 1)]
          ELSE [ok |-> FALSE, has |-> FALSE, text |-> <<>>]
     ELSE [ok |-> i1 <= Len(content) /\ content[i1] = "{", has |-> FALSE,
           text |-> <<>>]

\* The header pattern of parseJavaContent with its keyword at p,
\*   (?:class|interface|enum)\s+(\w+)(?:\s+extends\s+([^{<\s]+))?
\*   (?:\s+implements\s+([^{{]+))?\s*\{
\* Every group is greedy and what follows it cannot begin with a character
\* the group takes, so each group takes its whole run or the match fails.
HeaderAt(content, p) ==
  IF NameStart(content, p, TypeWords) = 0 THEN NoHeader
  ELSE LET ext == ExtendsAt(content,
                            RunEnd(content, NameStart(content, p, TypeWords),
                                   WordChars))
           impl == ImplementsAt(content, ext.next)
       IN [ok |-> impl.ok, hasExt |-> ext.has, ext |-> ext.text,
           hasImpl |-> impl.has, impls |-> impl.text]

\* content.match(header pattern): the match with the least keyword position.
classMatch(content) ==
  LET at == {p \in 1..Len(content) : HeaderAt(content, p).ok}
  IN IF at = {} THEN NoHeader
     ELSE HeaderAt(content, CHOOSE p \in at : \A q \in at : p <= q)

NoTextClass ==
  [ok |-> FALSE, className |-> <<>>, kind |-> "class", super |-> NullName,
   interfaces |-> <<>>]

\* parseJavaContent(content, filePath) on the text of a file: the class
\* name, the kind, the supertype and the interfaces of the ParsedClass.
parseJavaText(content) ==
  LET className == extractClassName(content)
      kind == extractClassKind(content)
      match == classMatch(content)
      written == Split(match.impls, ",")
      cleaned == [k \in 1..Len(written) |-> cleanTypeName(Trim(written[k]))]
  IN IF className = NullName \/ ~match.ok THEN NoTextClass
     ELSE [ok |-> TRUE, className |-> className, kind |-> kind,
           super |-> IF match.hasExt THEN cleanTypeName(match.ext)
                     ELSE NullName,
           interfaces |-> IF match.hasImpl
                          THEN SelectSeq(cleaned, LAMBDA n : n # <<>>)
                          ELSE <<>>]

\* The text of a file that declares one top-level type, in its pieces:
\*   before [public ] kind name [extends ext] [implements impls] { nested }
TextContent(unit) ==
  unit.before \o <<"p", "u", "b", "l", "i", "c", " ">> \o unit.kind \o <<" ">> \o unit.name
    \o (IF unit.ext # <<>> THEN <<" ", "e", "x", "t", "e", "n", "d", "s", " ">> \o unit.ext ELSE <<>>)
    \o (IF unit.impls # <<>> THEN <<" ", "i", "m", "p", "l", "e", "m", "e", "n", "t", "s", " ">> \o unit.impls ELSE <<>>)
    \o <<" ", "{", "\n">> \o unit.nested \o <<"}", "\n">>

\* parseJavaContent on the text in parserIn.
parseText ==
  /\ parserIn.op = "text"
  /\ parserOut = NoParse
  /\ parserOut' = [op |-> "text",
                   parsed |-> parseJavaText(TextContent(parserIn.unit))]
  /\ UNCHANGED <<parserIn, notParser>>

-----------------------------------------------------------------------------
(* src/indexer/index.ts: buildIndex and the index files *)

Minecraft == <<"m", "i", "n", "e", "c", "r", "a", "f", "t">>
Fabric == <<"f", "a", "b", "r", "i", "c">>
Namespaces == <<Minecraft, Fabric>>

\* The bucket of the classes without a package (addToPackageIndex).
DefaultPackage == <<"d", "e", "f", "a", "u", "l", "t">>

\* UTF-16 code units in increasing order, for the characters of names.
CodeUnits ==
  <<".", "0", "1", "2", "3", "4", "5", "6", "7", "8", "9", ":",
    "A", "B", "C", "D", "E", "F", "G", "H", "I", "J", "K", "L", "M",
    "N", "O", "P", "Q", "R", "S", "T", "U", "V", "W", "X", "Y", "Z", "_",
    "a", "b", "c", "d", "e", "f", "g", "h", "i", "j", "k", "l", "m",
    "n", "o", "p", "q", "r", "s", "t", "u", "v", "w", "x", "y", "z">>

CodeUnit(c) == CHOOSE k \in 1..Len(CodeUnits) : CodeUnits[k] = c

\* a < b as Array.prototype.sort compares strings without a comparator.
RECURSIVE StringLess(_, _)
StringLess(a, b) ==
  IF b = <<>> THEN FALSE
  ELSE IF a = <<>> THEN TRUE
  ELSE IF Head(a) = Head(b) THEN StringLess(Tail(a), Tail(b))
  ELSE CodeUnit(Head(a)) < CodeUnit(Head(b))

\* Mutant: the names are left in insertion order.
SortNone(names) == names

RECURSIVE Sort(_)
Sort(names) ==
  IF names = <<>> THEN <<>>
  ELSE LET least == CHOOSE k \in 1..Len(names) :
                      \A j \in 1..Len(names) :
                        /\ ~StringLess(names[j], names[k])
                        /\ (names[j] = names[k] => k <= j)
       IN <<names[least]>> \o
          Sort([j \in 1..(Len(names) - 1) |->
                  IF j < least THEN names[j] ELSE names[j + 1]])

\* record[key] = value on a JavaScript object, kept as its own properties in
\* insertion order: <<key, value>> pairs.
\* Mutant: a key that is there keeps its value.
SetPropertyOnce(props, key, value) ==
  IF \E k \in 1..Len(props) : props[k][1] = key THEN props
  ELSE Append(props, <<key, value>>)

SetProperty(props, key, value) ==
  IF \E k \in 1..Len(props) : props[k][1] = key
  THEN [k \in 1..Len(props) |->
          IF props[k][1] = key THEN <<key, value>> ELSE props[k]]
  ELSE Append(props, <<key, value>>)

HasProperty(props, key) == \E k \in 1..Len(props) : props[k][1] = key

OwnProperty(props, key) ==
  props[CHOOSE k \in 1..Len(props) : props[k][1] = key][2]

Keys(props) == [k \in 1..Len(props) |-> props[k][1]]

\* addToPackageIndex(packages, parsed); packages is the Map, in insertion
\* order, from package name to the package's classes.
addToPackageIndex(packages, parsedClass) ==
  LET packageName ==
        IF parsedClass.packageName = <<>> THEN DefaultPackage ELSE parsedClass.packageName
      pkgIndex ==
        IF HasProperty(packages, packageName)
        THEN OwnProperty(packages, packageName) ELSE <<>>
  IN SetProperty(packages, packageName,
                 SetProperty(pkgIndex, parsedClass.className, parsedClass.info))

\* The loop of buildIndex over the files of one source directory.
RECURSIVE IndexFiles(_, _)
IndexFiles(files, packages) ==
  IF files = <<>> THEN packages
  ELSE LET parsedClass == parseJavaContent(Head(files))
       IN IndexFiles(Tail(files),
                     IF parsedClass.ok THEN addToPackageIndex(packages, parsedClass)
                     ELSE packages)

NoManifest == [present |-> FALSE, minecraft |-> <<>>, fabric |-> <<>>]
MissingFile(content) == [state |-> "missing", content |-> content]
CorruptFile(content) == [state |-> "corrupt", content |-> content]
WrittenFile(content) == [state |-> "ok", content |-> content]

NoMethod == [name |-> <<>>, lineStart |-> 0, lineEnd |-> 0]

NoQuery ==
  [op |-> "none", className |-> <<>>, direction |-> "", methodName |-> <<>>,
   status |-> "none",
   list |-> <<>>, info |-> NoClass.info, source |-> <<>>, sourcePath |-> "",
   method |-> NoMethod, excerpt |-> <<>>, manifest |-> NoManifest,
   scan |-> <<<<>>, <<>>>>]

\* getPackageIndexPath(namespace, packageName)
getPackageIndexPath(namespace, packageName) == <<namespace, packageName>>

\* writePackageIndices(namespace, packages) on the shard files.
writePackageIndices(files, namespace, packages) ==
  [path \in DOMAIN files |->
     IF path[1] = namespace /\ HasProperty(packages, path[2])
     THEN WrittenFile(OwnProperty(packages, path[2]))
     ELSE files[path]]

\* loadIndexManifest(): null when the file is missing or does not parse.
loadIndexManifest ==
  IF manifestFile.state = "ok" THEN manifestFile.content ELSE NoManifest

\* loadPackageIndex(namespace, packageName): null when the file is missing
\* or does not parse.
ShardLoads(namespace, packageName) ==
  /\ getPackageIndexPath(namespace, packageName) \in DOMAIN shardFiles
  /\ shardFiles[getPackageIndexPath(namespace, packageName)].state = "ok"

loadPackageIndex(namespace, packageName) ==
  shardFiles[getPackageIndexPath(namespace, packageName)].content

\* The files of a sequence, as a set.
Range(files) == {files[k] : k \in 1..Len(files)}

\* Mutant: the files of one directory come in any order too.
GlobOrdersAny(files) ==
  LET n == Len(files)
      orders == {o \in [1..n -> 1..n] : \A i, j \in 1..n : i # j => o[i] # o[j]}
  IN {[k \in 1..n |-> files[o[k]]] : o \in orders}

\* What glob('**/*.java') may return for the files of a source directory,
\* here listed in one of its orders: the directories are read concurrently,
\* so the files of different directories come in any interleaving, each
\* directory's files in the order of its listing.
GlobOrders(files) ==
  LET n == Len(files)
      orders == {o \in [1..n -> 1..n] :
                   /\ \A i, j \in 1..n : i # j => o[i] # o[j]
                   /\ \A i, j \in 1..n :
                        (i < j /\ files[o[i]].dir = files[o[j]].dir)
                          => o[i] < o[j]}
  IN {[k \in 1..n |-> files[o[k]]] : o \in orders}

NoTree == [minecraft |-> <<>>, fabric |-> <<>>]

\* Object.keys(pkg).length summed over the packages of a Map.
RECURSIVE CountClasses(_)
CountClasses(packages) ==
  IF packages = <<>> THEN 0
  ELSE Len(Head(packages)[2]) + CountClasses(Tail(packages))

\* buildIndex(options) runs in three segments, separated by its awaits on
\* writePackageIndices.  First segment: the source directories (those the
\* decompiler left, now on disk) are listed, every file is parsed and the
\* minecraft shards are written.
BuildIndexBegin(tree, mcJavaFiles, fabricJavaFiles) ==
  LET minecraftPackages == IndexFiles(mcJavaFiles, <<>>)
      fabricPackages == IndexFiles(fabricJavaFiles, <<>>)
  IN /\ build.phase \in {"idle", "done"}
     /\ sourceFiles' =
          sourceFiles \cup Range(tree.minecraft) \cup Range(tree.fabric)
     /\ shardFiles' =
          writePackageIndices(shardFiles, Minecraft, minecraftPackages)
     /\ build' = [phase |-> "minecraft", tree |-> tree,
                  minecraftPackages |-> minecraftPackages,
                  fabricPackages |-> fabricPackages,
                  totalClasses |-> 0,
                  prior |-> [done |-> build.phase = "done",
                             tree |-> build.tree,
                             shards |-> shardFiles]]
     /\ idxOp' = [NoQuery EXCEPT !.op = "buildIndex",
                                  !.scan = <<mcJavaFiles, fabricJavaFiles>>]
     /\ UNCHANGED <<manifestFile, store, faults>>

buildIndex(Trees) ==
  \E tree \in Trees :
    \E mcJavaFiles \in GlobOrders(tree.minecraft),
       fabricJavaFiles \in GlobOrders(tree.fabric) :
      /\ BuildIndexBegin(tree, mcJavaFiles, fabricJavaFiles)
      /\ UNCHANGED notIdx

\* Second segment: the fabric shards are written.
BuildIndexFabric ==
  /\ build.phase = "minecraft"
  /\ shardFiles' =
       writePackageIndices(shardFiles, Fabric, build.fabricPackages)
  /\ build' = [build EXCEPT !.phase = "fabric"]
  /\ idxOp' = [NoQuery EXCEPT !.op = "buildIndex", !.scan = idxOp.scan]
  /\ UNCHANGED <<sourceFiles, manifestFile, store, faults>>

buildIndexFabric == BuildIndexFabric /\ UNCHANGED notIdx

\* Third segment: the manifest is written and the result returned.
BuildIndexManifest ==
  /\ build.phase = "fabric"
  /\ manifestFile' =
       WrittenFile([present |-> TRUE,
                    minecraft |-> Sort(Keys(build.minecraftPackages)),
                    fabric |-> Sort(Keys(build.fabricPackages))])
  /\ build' = [build EXCEPT !.phase = "done",
                            !.totalClasses =
                              CountClasses(build.minecraftPackages)
                                + CountClasses(build.fabricPackages)]
  /\ idxOp' = [NoQuery EXCEPT !.op = "buildIndex", !.scan = idxOp.scan]
  /\ UNCHANGED <<sourceFiles, shardFiles, store, faults>>

buildIndexManifest == BuildIndexManifest /\ UNCHANGED notIdx

-----------------------------------------------------------------------------
(* src/storage/source-store.ts: SourceStore *)

\* The names every JavaScript object inherits from Object.prototype: a
\* lookup record[name] finds them on an object that has no such own key.
ObjectPrototypeKeys ==
  {<<"c", "o", "n", "s", "t", "r", "u", "c", "t", "o", "r">>,
   <<"t", "o", "S", "t", "r", "i", "n", "g">>,
   <<"v", "a", "l", "u", "e", "O", "f">>,
   <<"h", "a", "s", "O", "w", "n", "P", "r", "o", "p", "e", "r", "t", "y">>,
   <<"i", "s", "P", "r", "o", "t", "o", "t", "y", "p", "e", "O", "f">>,
   <<"p", "r", "o", "p", "e", "r", "t", "y", "I", "s", "E", "n", "u", "m", "e", "r", "a", "b", "l", "e">>,
   <<"t", "o", "L", "o", "c", "a", "l", "e", "S", "t", "r", "i", "n", "g">>,
   <<"_", "_", "p", "r", "o", "t", "o", "_", "_">>}

\* pkgIndex.classes[simpleClassName] on the parsed shard.
GetProperty(props, key) ==
  IF HasProperty(props, key)
  THEN [found |-> "own", value |-> OwnProperty(props, key)]
  ELSE IF key \in ObjectPrototypeKeys
  THEN [found |-> "inherited", value |-> NoClass.info]
  ELSE [found |-> "undefined", value |-> NoClass.info]

\* The root of the names parseClassName resolves to the fabric namespace.
FabricRoot == <<"n", "e", "t", ".", "f", "a", "b", "r", "i", "c", "m", "c">>

\* getManifest(): the memoized manifest, read from disk while there is none.
getManifest ==
  IF store.manifest.present THEN store.manifest ELSE loadIndexManifest

\* Mutant: the key is the package name alone.
cacheKeyOfPackage(namespace, packageName) == packageName

\* const cacheKey = `${namespace}:${packageName}`
cacheKey(namespace, packageName) == namespace \o <<":">> \o packageName

CacheHas(cache, key) == \E e \in cache : e.key = key
CacheGet(cache, key) == (CHOOSE e \in cache : e.key = key).classes

\* Mutant: the shard loaded takes the place of the shards cached before.
getPackageEvicting(cache, namespace, packageName) ==
  IF ~CacheHas(cache, cacheKey(namespace, packageName))
     /\ ShardLoads(namespace, packageName)
  THEN {[key |-> cacheKey(namespace, packageName),
         classes |-> loadPackageIndex(namespace, packageName)]}
  ELSE cache

\* packageCache after getPackage(namespace, packageName): a shard that is
\* not cached is loaded, and cached when it loads.
getPackage(cache, namespace, packageName) ==
  IF ~CacheHas(cache, cacheKey(namespace, packageName))
     /\ ShardLoads(namespace, packageName)
  THEN cache \cup {[key |-> cacheKey(namespace, packageName),
                    classes |-> loadPackageIndex(namespace, packageName)]}
  ELSE cache

\* packageCache after getPackage on each <<namespace, packageName>> in turn.
RECURSIVE GetPackages(_, _)
GetPackages(cache, visits) ==
  IF visits = <<>> THEN cache
  ELSE GetPackages(getPackage(cache, Head(visits)[1], Head(visits)[2]),
                   Tail(visits))

\* The packages of the manifest in the order the scans take them: those of
\* minecraft, then those of fabric.
ManifestPackages(manifest) ==
  [k \in 1..Len(manifest.minecraft) |-> <<Minecraft, manifest.minecraft[k]>>]
    \o [k \in 1..Len(manifest.fabric) |-> <<Fabric, manifest.fabric[k]>>]

\* The classes getPackage returns for a visit; none for a null package.
PackageClasses(cache, visit) ==
  IF CacheHas(cache, cacheKey(visit[1], visit[2]))
  THEN CacheGet(cache, cacheKey(visit[1], visit[2])) ELSE <<>>

RECURSIVE Flatten(_)
Flatten(seqs) == IF seqs = <<>> THEN <<>> ELSE Head(seqs) \o Flatten(Tail(seqs))

\* resolveSourcePath(storedPath, namespace): buildIndex stores the absolute
\* paths that glob returns, which are returned as they stand.
resolveSourcePath(storedPath) == storedPath

QualifiedName(packageName, simpleName) == packageName \o <<".">> \o simpleName

Includes(s, x) == \E k \in 1..Len(s) : s[k] = x

\* Mutant: the direction is ignored, a class matches by super or interface.
HierarchyMatchesEither(classes, packageName, className, direction) ==
  LET hit(entry) ==
        \/ entry[2].super = className
        \/ Includes(entry[2].interfaces, className)
      hits == SelectSeq(classes, hit)
  IN [k \in 1..Len(hits) |->
        <<QualifiedName(packageName, hits[k][1]),
          resolveSourcePath(hits[k][2].sourcePath)>>]

\* The entries findHierarchy pushes for the classes of one package.
HierarchyMatches(classes, packageName, className, direction) ==
  LET hit(entry) ==
        IF direction = "subclasses" THEN entry[2].super = className
        ELSE direction = "implementors" /\ Includes(entry[2].interfaces, className)
      hits == SelectSeq(classes, hit)
  IN [k \in 1..Len(hits) |->
        <<QualifiedName(packageName, hits[k][1]),
          resolveSourcePath(hits[k][2].sourcePath)>>]

\* What a query leaves of the store: the manifest it fetched, the cache.
StoreAfter(manifest, cache) == [manifest |-> manifest, packageCache |-> cache]

\* findHierarchy(className, direction)
findHierarchy(ClassNames, Directions) ==
  \E className \in ClassNames, direction \in Directions :
    LET manifest == getManifest
        visits == ManifestPackages(manifest)
        cache == GetPackages(store.packageCache, visits)
        results ==
          Flatten([k \in 1..Len(visits) |->
                     HierarchyMatches(PackageClasses(cache, visits[k]),
                                      visits[k][2], className, direction)])
    IN /\ store' = StoreAfter(manifest, cache)
       /\ idxOp' = [NoQuery EXCEPT !.op = "findHierarchy",
                                   !.className = className,
                                   !.direction = direction,
                                   !.status = "returned",
                                   !.list = results,
                                   !.manifest = manifest]
       /\ UNCHANGED <<sourceFiles, manifestFile, shardFiles, build, faults, notIdx>>

\* parseClassName(fullName): the last dot segment is the simple name, the
\* rest the package; the namespace by the prefix of the whole name.
parseClassName(fullName) ==
  LET parts == Split(fullName, ".")
  IN [packageName |-> Join(SubSeq(parts, 1, Len(parts) - 1), "."),
      simpleClassName |-> parts[Len(parts)],
      namespace |-> IF StartsWith(fullName, FabricRoot) THEN Fabric
                    ELSE Minecraft]

FilesOnDisk == sourceFiles

\* fs.existsSync(sourcePath) in readSource.
SourceExists(sourcePath) == \E f \in FilesOnDisk : f.path = sourcePath

\* readSource(sourcePath).split('\n'), each line by its 1-based number.
SourceLines(sourcePath) ==
  LET f == CHOOSE f \in FilesOnDisk : f.path = sourcePath
  IN [k \in 1..f.nlines |-> k]

\* getClass(className): what it returns or that it throws, and the store
\* it leaves.
GetClass(className) ==
  LET manifest == getManifest
      resolved == parseClassName(className)
      cache == getPackage(store.packageCache, resolved.namespace,
                          resolved.packageName)
      key == cacheKey(resolved.namespace, resolved.packageName)
      classInfo == GetProperty(CacheGet(cache, key), resolved.simpleClassName)
      sourcePath == resolveSourcePath(classInfo.value.sourcePath)
      null(st) == [status |-> "null", info |-> NoClass.info, source |-> <<>>,
                   sourcePath |-> "", store |-> st, manifest |-> manifest]
  IN IF ~manifest.present THEN null(store)
     ELSE IF ~CacheHas(cache, key) THEN null(StoreAfter(manifest, cache))
     ELSE IF classInfo.found = "undefined"
     THEN null(StoreAfter(manifest, cache))
     ELSE IF classInfo.found = "inherited"
     THEN \* classInfo.sourcePath is undefined: path.isAbsolute throws
          [null(StoreAfter(manifest, cache)) EXCEPT !.status = "threw"]
     ELSE IF ~SourceExists(sourcePath) THEN null(StoreAfter(manifest, cache))
     ELSE [status |-> "returned", info |-> classInfo.value,
           source |-> SourceLines(sourcePath), sourcePath |-> sourcePath,
           store |-> StoreAfter(manifest, cache), manifest |-> manifest]

getClass(ClassNames) ==
  \E className \in ClassNames :
    LET result == GetClass(className)
    IN /\ store' = result.store
       /\ idxOp' = [NoQuery EXCEPT !.op = "getClass",
                                   !.className = className,
                                   !.status = result.status,
                                   !.info = result.info,
                                   !.source = result.source,
                                   !.sourcePath = result.sourcePath,
                                   !.manifest = result.manifest]
       /\ UNCHANGED <<sourceFiles, manifestFile, shardFiles, build, faults, notIdx>>

\* Mutant: the first method whose name matches ignoring case, exact or not.
FindMethodFolded(methods, methodName) ==
  LET folded == SelectSeq(methods,
                          LAMBDA m : ToLower(m.name) = ToLower(methodName))
  IN IF folded # <<>> THEN <<folded[1]>> ELSE <<>>

\* methods.find(m => m.name === methodName), then ignoring case.
FindMethod(methods, methodName) ==
  LET exact == SelectSeq(methods, LAMBDA m : m.name = methodName)
      folded == SelectSeq(methods,
                          LAMBDA m : ToLower(m.name) = ToLower(methodName))
  IN IF exact # <<>> THEN <<exact[1]>>
     ELSE IF folded # <<>> THEN <<folded[1]>>
     ELSE <<>>

\* extractMethodSource(source, method): lines.slice(startLine, endLine), the
\* lines at the 0-based positions startLine .. endLine - 1.
extractMethodSource(lines, method) ==
  LET startLine == Max(0, method.lineStart - 3)
      endLine == Min(Len(lines), method.lineEnd + 3)
  IN SubSeq(lines, startLine + 1, endLine)

\* getMethod(className, methodName)
getMethod(ClassNames, MethodNames) ==
  \E className \in ClassNames, methodName \in MethodNames :
    LET classResult == GetClass(className)
        found == FindMethod(classResult.info.methods, methodName)
        base == [NoQuery EXCEPT !.op = "getMethod",
                                !.className = className,
                                !.methodName = methodName,
                                !.manifest = classResult.manifest]
    IN /\ store' = classResult.store
       /\ idxOp' =
            IF classResult.status # "returned"
            THEN [base EXCEPT !.status = classResult.status]
            ELSE IF found = <<>> THEN [base EXCEPT !.status = "null"]
            ELSE [base EXCEPT !.status = "returned",
                              !.method = found[1],
                              !.excerpt = extractMethodSource(classResult.source,
                                                              found[1]),
                              !.info = classResult.info,
                              !.source = classResult.source,
                              !.sourcePath = classResult.sourcePath]
       /\ UNCHANGED <<sourceFiles, manifestFile, shardFiles, build, faults, notIdx>>

\* listPackages(namespace?); the absent argument is "".
listPackages(NamespaceArgs) ==
  \E namespace \in NamespaceArgs :
    LET manifest == getManifest
        results ==
          IF ~manifest.present THEN <<>>
          ELSE IF namespace = Minecraft THEN manifest.minecraft
          ELSE IF namespace = Fabric THEN manifest.fabric
          ELSE manifest.minecraft \o manifest.fabric
    IN /\ store' = [store EXCEPT !.manifest = manifest]
       /\ idxOp' = [NoQuery EXCEPT !.op = "listPackages",
                                   !.className = namespace,
                                   !.status = "returned",
                                   !.list = results,
                                   !.manifest = manifest]
       /\ UNCHANGED <<sourceFiles, manifestFile, shardFiles, build, faults, notIdx>>

\* Mutant: every package whose name starts with packagePath is taken.
ListedPackageByPrefix(packageName, packagePath) ==
  StartsWith(ToLower(packageName), ToLower(packagePath))

\* The packages listClasses takes for packagePath.
ListedPackage(packageName, packagePath) ==
  \/ ToLower(packageName) = ToLower(packagePath)
  \/ StartsWith(ToLower(packageName), ToLower(packagePath) \o <<".">>)

\* listClasses(packagePath): getPackage is called for the matching packages
\* only.
listClasses(PackagePaths) ==
  \E packagePath \in PackagePaths :
    LET manifest == getManifest
        visits == SelectSeq(ManifestPackages(manifest),
                            LAMBDA v : ListedPackage(v[2], packagePath))
        cache == GetPackages(store.packageCache, visits)
        entries(visit) ==
          LET classes == PackageClasses(cache, visit)
          IN [k \in 1..Len(classes) |->
                <<QualifiedName(visit[2], classes[k][1]), classes[k][1],
                  resolveSourcePath(classes[k][2].sourcePath)>>]
        results == Flatten([k \in 1..Len(visits) |-> entries(visits[k])])
    IN /\ store' = StoreAfter(manifest, cache)
       /\ idxOp' = [NoQuery EXCEPT !.op = "listClasses",
                                   !.className = packagePath,
                                   !.status = "returned",
                                   !.list = results,
                                   !.manifest = manifest]
       /\ UNCHANGED <<sourceFiles, manifestFile, shardFiles, build, faults, notIdx>>

\* haystack.includes(needle)
Contains(haystack, needle) ==
  \E k \in 0..(Len(haystack) - Len(needle)) :
    SubSeq(haystack, k + 1, k + Len(needle)) = needle

SearchCap == 50

\* Mutant: the methods of a class are pushed before its fields.
SearchClassMethodsFirst(entry, packageName, queryLower, type) ==
  LET fullName == QualifiedName(packageName, entry[1])
      sourcePath == resolveSourcePath(entry[2].sourcePath)
      named(members) ==
        SelectSeq(members, LAMBDA m : Contains(ToLower(m.name), queryLower))
      fields == named(entry[2].fields)
      methods == named(entry[2].methods)
  IN (IF type \in {"", "class"} /\ Contains(ToLower(entry[1]), queryLower)
      THEN <<(<<"class", fullName, entry[1], sourcePath>>)>> ELSE <<>>)
     \o (IF type \in {"", "method"}
         THEN [k \in 1..Len(methods) |->
                 <<"method", fullName, methods[k].name, sourcePath>>]
         ELSE <<>>)
     \o (IF type \in {"", "field"}
         THEN [k \in 1..Len(fields) |->
                 <<"field", fullName, fields[k].name, sourcePath>>]
         ELSE <<>>)

\* What searchInPackage pushes for one class: the class, its fields, its
\* methods, as <<type, className, name, sourcePath>>.
SearchClass(entry, packageName, queryLower, type) ==
  LET fullName == QualifiedName(packageName, entry[1])
      sourcePath == resolveSourcePath(entry[2].sourcePath)
      named(members) ==
        SelectSeq(members, LAMBDA m : Contains(ToLower(m.name), queryLower))
      fields == named(entry[2].fields)
      methods == named(entry[2].methods)
  IN (IF type \in {"", "class"} /\ Contains(ToLower(entry[1]), queryLower)
      THEN <<(<<"class", fullName, entry[1], sourcePath>>)>> ELSE <<>>)
     \o (IF type \in {"", "field"}
         THEN [k \in 1..Len(fields) |->
                 <<"field", fullName, fields[k].name, sourcePath>>]
         ELSE <<>>)
     \o (IF type \in {"", "method"}
         THEN [k \in 1..Len(methods) |->
                 <<"method", fullName, methods[k].name, sourcePath>>]
         ELSE <<>>)

\* search(query, type?); the absent type is "".
search(Queries, Types) ==
  \E query \in Queries, type \in Types :
    LET manifest == getManifest
        visits == ManifestPackages(manifest)
        cache == GetPackages(store.packageCache, visits)
        inPackage(visit) ==
          LET classes == PackageClasses(cache, visit)
          IN Flatten([k \in 1..Len(classes) |->
                        SearchClass(classes[k], visit[2], ToLower(query), type)])
        results == Flatten([k \in 1..Len(visits) |-> inPackage(visits[k])])
    IN /\ store' = StoreAfter(manifest, cache)
       /\ idxOp' = [NoQuery EXCEPT !.op = "search",
                                   !.className = query,
                                   !.direction = type,
                                   !.status = "returned",
                                   !.list = Take(results, SearchCap),
                                   !.manifest = manifest]
       /\ UNCHANGED <<sourceFiles, manifestFile, shardFiles, build, faults, notIdx>>

\* The index files and the sources are ordinary files that can be deleted
\* or damaged outside the program; MaxFaults such events are considered.
manifestLost ==
  /\ faults < MaxFaults
  /\ manifestFile.state = "ok"
  /\ \E lost \in {MissingFile(NoManifest), CorruptFile(NoManifest)} :
       manifestFile' = lost
  /\ faults' = faults + 1
  /\ idxOp' = [NoQuery EXCEPT !.op = "fileLost"]
  /\ UNCHANGED <<sourceFiles, shardFiles, store, build, notIdx>>

shardLost ==
  /\ faults < MaxFaults
  /\ \E path \in DOMAIN shardFiles, lost \in {MissingFile(<<>>), CorruptFile(<<>>)} :
       /\ shardFiles[path].state = "ok"
       /\ shardFiles' = [shardFiles EXCEPT ![path] = lost]
  /\ faults' = faults + 1
  /\ idxOp' = [NoQuery EXCEPT !.op = "fileLost"]
  /\ UNCHANGED <<sourceFiles, manifestFile, store, build, notIdx>>

sourceLost ==
  /\ faults < MaxFaults
  /\ \E f \in FilesOnDisk :
       sourceFiles' = sourceFiles \ {f}
  /\ faults' = faults + 1
  /\ idxOp' = [NoQuery EXCEPT !.op = "fileLost"]
  /\ UNCHANGED <<manifestFile, shardFiles, store, build, notIdx>>

-----------------------------------------------------------------------------
(* Inputs *)

\* Dump fields.  The format of a dump line is
\*   seq TAB num TAB caller TAB callee TAB line TAB ...
\* with caller = class:method(args) and callee = (TYPE)class:method(args).
One == <<"1">>
Seven == <<"7">>
CallerAbC == <<"a", "b", ":", "c", "(", ")">>
CallerABc == <<"a", ":", "b", "c", "(", ")">>
CalleeAbC == <<"(", "V", "I", "R", ")">> \o CallerAbC
CalleeABc == <<"(", "S", "T", "A", ")">> \o CallerABc

LineA == <<One, One, CallerAbC, CalleeABc, Seven>>
LineB == <<One, One, CallerABc, CalleeAbC, <<>>, <<"r">>>>
LineBlank == <<<<>>>>
LineComment == <<<<"#">>, One, CallerAbC, CalleeABc, Seven>>
LineShort == <<One, One, CallerAbC, CalleeABc>>
LineBadCaller == <<One, One, <<"a", "b", "c", "(", ")">>, CalleeABc, Seven>>
LineBadCallee == <<One, One, CallerAbC, CallerABc, Seven>>

IngestLines ==
  {LineA, LineB, LineBlank, LineComment, LineShort, LineBadCaller, LineBadCallee}

\* content.split('\n') has at least one element.
DumpsOver(pool, n) == UNION {[1..k -> pool] : k \in 1..n}

IngestDumps == DumpsOver(IngestLines, MaxDumpLen)

\* The dumps the API specification ingests.
QueryDumps ==
  {<<LineB, LineA>>, <<LineA, LineComment, LineB, LineA>>}

QueryKeys ==
  {<<<<"a", "b">>, <<"c">>>>, <<<<"a">>, <<"c">>>>}

SearchQueries == {<<"B">>, <<"_">>}
SearchLimits == {1, SearchDefaultLimit}

-----------------------------------------------------------------------------
(* Source trees *)

\* A Java file that declares one type: its path, the package statement, the
\* header as written (ext after `extends`, impls after `implements`, each
\* with the qualified name of the type it denotes), the field and method
\* declarations with the lines the parser records, the number of lines.
PkgP == <<"p">>
PkgQ == <<"q">>
PkgFabricA ==
  <<"n", "e", "t", ".", "f", "a", "b", "r", "i", "c", "m", "c", ".", "a">>

FileB ==
  [path |-> "/mc1/p/B.java", dir |-> "/mc1/p",
   pkg |-> PkgP, kind |-> "class", name |-> <<"B">>,
   params |-> <<>>,
   ext |-> <<>>, extFqn |-> <<>>,
   impls |-> <<>>,
   implFqns |-> {},
   fields |-> <<[name |-> <<"x">>]>>,
   methods |-> <<[name |-> <<"f">>, lineStart |-> 2, lineEnd |-> 3], [name |-> <<"g">>, lineStart |-> 5, lineEnd |-> 6]>>,
   nlines |-> 10]

FileA ==
  [path |-> "/mc1/p/A.java", dir |-> "/mc1/p",
   pkg |-> PkgP, kind |-> "class", name |-> <<"A">>,
   params |-> <<>>,
   ext |-> <<"B">>, extFqn |-> <<"p", ".", "B">>,
   impls |-> <<"I", ",", " ", "J">>,
   implFqns |-> {<<"q", ".", "I">>, <<"q", ".", "J">>},
   fields |-> <<>>,
   methods |-> <<[name |-> <<"F">>, lineStart |-> 1, lineEnd |-> 12], [name |-> <<"f">>, lineStart |-> 4, lineEnd |-> 4]>>,
   nlines |-> 12]

FileI ==
  [path |-> "/mc1/q/I.java", dir |-> "/mc1/q",
   pkg |-> PkgQ, kind |-> "interface", name |-> <<"I">>,
   params |-> <<>>,
   ext |-> <<>>, extFqn |-> <<>>,
   impls |-> <<>>,
   implFqns |-> {},
   fields |-> <<>>,
   methods |-> <<>>,
   nlines |-> 3]

FileC ==
  [path |-> "/mc2/q/C.java", dir |-> "/mc2/q",
   pkg |-> PkgQ, kind |-> "class", name |-> <<"C">>,
   params |-> <<>>,
   ext |-> <<"p", ".", "B">>, extFqn |-> <<"p", ".", "B">>,
   impls |-> <<>>,
   implFqns |-> {},
   fields |-> <<>>,
   methods |-> <<[name |-> <<"g">>, lineStart |-> 3, lineEnd |-> 13]>>,
   nlines |-> 8]

FileG ==
  [path |-> "/mc1/p/G.java", dir |-> "/mc1/p",
   pkg |-> PkgP, kind |-> "class", name |-> <<"G">>,
   params |-> <<>>,
   ext |-> <<"H", "<", "T", ">">>, extFqn |-> <<"p", ".", "H">>,
   impls |-> <<>>,
   implFqns |-> {},
   fields |-> <<>>,
   methods |-> <<>>,
   nlines |-> 4]

FileF ==
  [path |-> "/fabric/a/F.java", dir |-> "/fabric/a",
   pkg |-> PkgFabricA, kind |-> "class", name |-> <<"F">>,
   params |-> <<>>,
   ext |-> <<"B">>, extFqn |-> <<"p", ".", "B">>,
   impls |-> <<"I">>,
   implFqns |-> {<<"q", ".", "I">>},
   fields |-> <<>>,
   methods |-> <<[name |-> <<"f">>, lineStart |-> 6, lineEnd |-> 7]>>,
   nlines |-> 9]

FileE ==
  [path |-> "/mc2/E.java", dir |-> "/mc2",
   pkg |-> <<>>, kind |-> "class", name |-> <<"E">>,
   params |-> <<>>,
   ext |-> <<"C">>, extFqn |-> <<"q", ".", "C">>,
   impls |-> <<>>,
   implFqns |-> {},
   fields |-> <<>>,
   methods |-> <<>>,
   nlines |-> 5]

\* A class with WideMembers fields and as many methods, named f01, f02, ...
WideMembers == 30
DigitChars == <<"0", "1", "2", "3", "4", "5", "6", "7", "8", "9">>
WideName(k) == <<"f", DigitChars[(k \div 10) + 1], DigitChars[(k % 10) + 1]>>

FileW ==
  [path |-> "/mc3/w/W.java", dir |-> "/mc3/w",
   pkg |-> <<"w">>, kind |-> "class", name |-> <<"W">>,
   params |-> <<>>,
   ext |-> <<>>, extFqn |-> <<>>,
   impls |-> <<>>,
   implFqns |-> {},
   fields |-> [k \in 1..WideMembers |-> [name |-> WideName(k)]],
   methods |-> [k \in 1..WideMembers |->
                  [name |-> WideName(k), lineStart |-> 2 * k,
                   lineEnd |-> 2 * k + 1]],
   nlines |-> 2 * WideMembers + 2]

FileB3 ==
  [path |-> "/mc3/p/B.java", dir |-> "/mc3/p",
   pkg |-> PkgP, kind |-> "class", name |-> <<"B">>,
   params |-> <<>>,
   ext |-> <<>>, extFqn |-> <<>>,
   impls |-> <<>>,
   implFqns |-> {},
   fields |-> <<[name |-> <<"x">>]>>,
   methods |-> <<[name |-> <<"f">>, lineStart |-> 2, lineEnd |-> 3],
                 [name |-> <<"w">>, lineStart |-> 5, lineEnd |-> 6]>>,
   nlines |-> 10]

TreeWide == [minecraft |-> <<FileW, FileB3>>, fabric |-> <<FileF>>]

\* Packages that share a prefix as text: p, pq and p.x; net.m and
\* net.fabricmc.a.
FilePQ ==
  [path |-> "/mc3/pq/Q.java", dir |-> "/mc3/pq",
   pkg |-> <<"p", "q">>, kind |-> "class", name |-> <<"Q">>,
   params |-> <<>>,
   ext |-> <<>>, extFqn |-> <<>>,
   impls |-> <<>>,
   implFqns |-> {},
   fields |-> <<>>,
   methods |-> <<>>,
   nlines |-> 2]

FilePX ==
  [path |-> "/mc3/p/x/X.java", dir |-> "/mc3/p/x",
   pkg |-> <<"p", ".", "x">>, kind |-> "class", name |-> <<"X">>,
   params |-> <<>>,
   ext |-> <<>>, extFqn |-> <<>>,
   impls |-> <<>>,
   implFqns |-> {},
   fields |-> <<>>,
   methods |-> <<>>,
   nlines |-> 2]

FileNetM ==
  [path |-> "/mc3/net/m/M.java", dir |-> "/mc3/net/m",
   pkg |-> <<"n", "e", "t", ".", "m">>, kind |-> "class", name |-> <<"M">>,
   params |-> <<>>,
   ext |-> <<>>, extFqn |-> <<>>,
   impls |-> <<>>,
   implFqns |-> {},
   fields |-> <<>>,
   methods |-> <<>>,
   nlines |-> 2]

TreePrefix ==
  [minecraft |-> <<FileB3, FilePQ, FilePX, FileNetM>>, fabric |-> <<FileF>>]

PrefixPaths == {PkgP, <<"P">>, <<"p", "q">>, <<"N", "E", "T">>, <<"p", ".">>, <<"z">>}

\* Dumps with more calls of one method, and more calls by one method, than
\* a query returns.  Some lines differ from the others in the case of the
\* class only.
WideCalls == 104
Digits3(k) ==
  <<DigitChars[(k \div 100) + 1], DigitChars[((k \div 10) % 10) + 1],
    DigitChars[(k % 10) + 1]>>
ManyName(k) == <<"k">> \o Digits3(k) \o <<":", "m", "(", ")">>
CaseOf(k, raw, other) == IF k % 50 = 0 THEN other ELSE raw
CallerUpperABc == <<"A", ":", "b", "c", "(", ")">>

DumpManyCallers ==
  [k \in 1..WideCalls |->
     <<One, One, ManyName(k),
       <<"(", "S", ")">> \o CaseOf(k, CallerABc, CallerUpperABc),
       Digits3(k)>>]

DumpManyCallees ==
  [k \in 1..WideCalls |->
     <<One, One, CaseOf(k, CallerABc, CallerUpperABc),
       <<"(", "V", ")">> \o ManyName(k), Digits3(k)>>]

RefDumps == {DumpManyCallers, DumpManyCallees, <<LineB, LineA, LineB>>}

RefKeys ==
  {<<<<"a">>, <<"b", "c">>>>, <<<<"A">>, <<"b", "c">>>>,
   <<<<"a">>, <<"b">>>>, <<<<"k", "0", "0", "7">>, <<"m">>>>}

\* The sources of two Minecraft versions, each in the directory of its
\* version: the first with a fabric source directory, the second without.
TreeFull == [minecraft |-> <<FileB, FileA, FileI, FileG>>, fabric |-> <<FileF>>]
TreeSmall == [minecraft |-> <<FileC, FileE>>, fabric |-> <<>>]
Trees == {TreeFull, TreeSmall}

PoolFiles == {FileB, FileA, FileI, FileC, FileE, FileG, FileF, FileW, FileB3,
   FilePQ, FilePX, FileNetM}
PackageOf(f) == IF f.pkg = <<>> THEN DefaultPackage ELSE f.pkg
ShardPaths ==
  {getPackageIndexPath(Minecraft, PackageOf(f)) : f \in PoolFiles}
    \cup {getPackageIndexPath(Fabric, PackageOf(f)) : f \in PoolFiles}

NameB == <<"B">>
NamePB == <<"p", ".", "B">>
NameI == <<"I">>
NameQI == <<"q", ".", "I">>
NameP == <<"p">>
NameZ == <<"Z">>
NamePA == <<"p", ".", "A">>
NamePZ == <<"p", ".", "Z">>
NamePToString == <<"p", ".", "t", "o", "S", "t", "r", "i", "n", "g">>
NameQC == <<"q", ".", "C">>
NameFabricF ==
  <<"n", "e", "t", ".", "f", "a", "b", "r", "i", "c", "m", "c", ".", "a",
    ".", "F">>
NameZzA == <<"z", "z", ".", "A">>

HierarchyNames == {NameB, NamePB, NameI, NameP, NameZ}
Directions == {"subclasses", "implementors"}
ClassNames == {NamePA, NameQI, NameQC, NameFabricF, NameZzA}
MethodClassNames == {NamePA, NamePB, NamePZ}
MethodNames == {<<"f">>, <<"G">>, <<"h">>}
NamespaceArgs == {Minecraft, Fabric, <<>>}
PackagePaths == {PkgP, <<"P">>, <<"n", "e", "t">>, NameZ}
IndexQueries == {<<"f">>, <<"b">>, NameZ}
SearchTypes == {"", "class", "method"}
WideQueries == {<<"f">>, <<"F", "1">>, <<"w">>, NameZ}
WideTypes == {"", "class", "field", "method"}
AbsentClassNames == {NamePA, NamePZ, NamePToString, NameFabricF}

-----------------------------------------------------------------------------
(* The tool handlers: initialisation on first use (tools/index.ts) *)

Callers == 1..MaxCallers

\* The module as loaded: isInitialized = false, initPromise = null, no
\* handler called. started counts the runs of the initialisation body,
\* overlapped records a buildIndex called while another one was running.
ToolsLoaded ==
  [isInitialized |-> FALSE, initPromise |-> "null", body |-> "none",
   caller |-> [c \in Callers |-> "idle"], started |-> 0,
   overlapped |-> FALSE, lateCall |-> FALSE]

isReady == manifestFile.state # "missing"

\* Mutant: initPromise is not looked at, every caller that finds the index
\* not initialised runs the body.
SharesInitPromiseNever(promise) == FALSE

\* if (initPromise) return initPromise
SharesInitPromise(promise) == promise # "null"

\* A handler calls ensureInitialized: it returns at once when initialised,
\* returns the promise in flight when there is one, and otherwise starts the
\* body, which runs up to the await of ensureDecompiled.
ensureInitialized(c) ==
  /\ tools.caller[c] = "idle"
  /\ IF tools.isInitialized /\ isReady
     THEN tools' = [tools EXCEPT !.caller[c] = "ready"]
     ELSE IF SharesInitPromise(tools.initPromise)
     THEN tools' = [tools EXCEPT !.caller[c] = "awaiting",
                                 !.lateCall =
                                   @ \/ tools.initPromise = "rejected"]
     ELSE /\ tools.started < MaxStarts
          /\ tools' = [tools EXCEPT !.initPromise = "pending",
                                    !.body = "decompiling",
                                    !.started = @ + 1,
                                    !.caller[c] = "awaiting"]
  /\ UNCHANGED <<idxVars, cgVars, lineVars, parserVars>>

\* Mutant: a body that throws clears initPromise.
BodyThrewCleared == "null"

\* The async body has no catch: when it throws, initPromise keeps the
\* promise, now rejected.
BodyThrew == "rejected"

\* ensureDecompiled throws: the body ends, the promise is rejected.
decompileFails ==
  /\ tools.body = "decompiling"
  /\ tools' = [tools EXCEPT !.body = "none", !.initPromise = BodyThrew]
  /\ UNCHANGED <<idxVars, cgVars, lineVars, parserVars>>

\* ensureDecompiled returns with fabricDir null: the body calls buildIndex
\* when there is no manifest, and sets isInitialized otherwise.
decompiled(InitTrees) ==
  /\ tools.body = "decompiling"
  /\ IF ~isReady
     THEN IF build.phase \in {"idle", "done"}
          THEN /\ \E tree \in InitTrees :
                    \E mcJavaFiles \in GlobOrders(tree.minecraft) :
                      BuildIndexBegin(tree, mcJavaFiles, <<>>)
               /\ tools' = [tools EXCEPT !.body = "building"]
          ELSE /\ tools' = [tools EXCEPT !.body = "building",
                                         !.overlapped = TRUE]
               /\ UNCHANGED idxVars
     ELSE /\ tools' = [tools EXCEPT !.body = "none",
                                    !.isInitialized = TRUE,
                                    !.initPromise = "resolved"]
          /\ UNCHANGED idxVars
  /\ UNCHANGED <<cgVars, lineVars, parserVars>>

\* buildIndex goes on in the body.
initBuildFabric ==
  /\ tools.body = "building"
  /\ BuildIndexFabric
  /\ UNCHANGED <<tools, cgVars, lineVars, parserVars>>

initBuildManifest ==
  /\ tools.body = "building"
  /\ BuildIndexManifest
  /\ UNCHANGED <<tools, cgVars, lineVars, parserVars>>

\* buildIndex throws before it has written the manifest: its run ends, the
\* body ends, the promise is rejected.
initBuildFails ==
  /\ tools.body = "building"
  /\ build.phase \in {"minecraft", "fabric"}
  /\ build' = [build EXCEPT !.phase = "idle"]
  /\ tools' = [tools EXCEPT !.body = "none", !.initPromise = BodyThrew]
  /\ UNCHANGED <<sourceFiles, manifestFile, shardFiles, store, idxOp, faults,
                 cgVars, lineVars, parserVars>>

\* buildIndex has returned: isInitialized = true, the promise is resolved.
initialized ==
  /\ tools.body = "building"
  /\ build.phase = "done"
  /\ tools' = [tools EXCEPT !.body = "none", !.isInitialized = TRUE,
                            !.initPromise = "resolved"]
  /\ UNCHANGED <<idxVars, cgVars, lineVars, parserVars>>

\* The await of a caller ends with the promise.
resumed(c) ==
  /\ tools.caller[c] = "awaiting"
  /\ tools.initPromise \in {"resolved", "rejected"}
  /\ tools' = [tools EXCEPT !.caller[c] =
                 IF tools.initPromise = "resolved" THEN "ready" ELSE "threw"]
  /\ UNCHANGED <<idxVars, cgVars, lineVars, parserVars>>

\* The handler ends, with its answer or with the error.
handled(c) ==
  /\ tools.caller[c] \in {"ready", "threw"}
  /\ tools' = [tools EXCEPT !.caller[c] = "idle"]
  /\ UNCHANGED <<idxVars, cgVars, lineVars, parserVars>>

-----------------------------------------------------------------------------
(* Specifications *)

NoProbe ==
  [T |-> <<>>, m |-> <<>>, args |-> <<>>, calltype |-> <<>>, T2 |-> <<>>,
   m2 |-> <<>>, args2 |-> <<>>, line |-> <<>>, lineValue |-> NullLine]


\* No source tree, no index on disk, a fresh SourceStore.
IndexEmpty ==
  /\ sourceFiles = {}
  /\ build = [phase |-> "idle", tree |-> NoTree, minecraftPackages |-> <<>>,
              fabricPackages |-> <<>>, totalClasses |-> 0,
              prior |-> [done |-> FALSE, tree |-> NoTree,
                         shards |-> [path \in ShardPaths |-> MissingFile(<<>>)]]]
  /\ manifestFile = MissingFile(NoManifest)
  /\ shardFiles = [path \in ShardPaths |-> MissingFile(<<>>)]
  /\ store = [manifest |-> NoManifest, packageCache |-> {}]
  /\ idxOp = NoQuery
  /\ faults = 0
  /\ tools = ToolsLoaded

Init ==
  /\ dumpFile = <<LineBlank>>
  /\ storeFile = [v \in Versions |-> NoFile]
  /\ ensuring = NotEnsuring
  /\ db = Closed
  /\ lastOp = NoOp
  /\ probe = NoProbe
  /\ parsed = Skip
  /\ IndexEmpty
  /\ ParserIdle

\* The call-graph API of one process: ingestion and queries.
Next ==
  \/ ParseCallgraphAndCreateDb(Versions, QueryDumps)
  \/ EnsureCallgraphBegin
  \/ EnsureCallgraphParse(QueryDumps)
  \/ EnsureCallgraphRejected
  \/ findCallers(QueryKeys)
  \/ findCallees(QueryKeys)
  \/ searchMethods(SearchQueries, SearchLimits)
  \/ getCallgraphStats

Spec == Init /\ [][Next]_vars

\* Ingestion of one dump, any dump of the bounded set.
InitDump ==
  /\ dumpFile \in IngestDumps
  /\ storeFile = [v \in Versions |-> NoFile]
  /\ ensuring = NotEnsuring
  /\ db = Closed
  /\ lastOp = NoOp
  /\ probe = NoProbe
  /\ parsed = Skip
  /\ IndexEmpty
  /\ ParserIdle

NextDump == ParseCallgraphAndCreateDb({"v1"}, {dumpFile})

SpecDump == InitDump /\ [][NextDump]_vars

-----------------------------------------------------------------------------
(* The line parser on lines of the documented format *)

ProbeTypes == {<<"a">>, <<"a", ".", "B">>}
ProbeMethods == {<<"c">>, <<"<", "i", ">">>}
ProbeArgs == {<<>>, <<"x">>, <<"x", ",", "y">>}
ProbeCallTypes == {<<"V", "I", "R">>, <<"S">>}
ProbeLineNumbers ==
  {<<<<>>, NullLine>>, <<<<"7">>, <<"int", 7>>>>, <<<<"4", "2">>, <<"int", 42>>>>}

\* seq TAB num TAB T:m(args) TAB (CALLTYPE)T2:m2(args2) TAB line TAB type
ProbeFields(c) ==
  <<One, One,
    c.T \o <<":">> \o c.m \o <<"(">> \o c.args \o <<")">>,
    <<"(">> \o c.calltype \o <<")">> \o c.T2 \o <<":">> \o c.m2
      \o <<"(">> \o c.args2 \o <<")">>,
    c.line, <<"r">>>>

Probes ==
  {[T |-> T, m |-> m, args |-> args, calltype |-> calltype,
    T2 |-> T2, m2 |-> m2, args2 |-> args2, line |-> ln[1],
    lineValue |-> ln[2]] :
     T \in ProbeTypes, m \in ProbeMethods, args \in ProbeArgs,
     calltype \in ProbeCallTypes, T2 \in ProbeTypes, m2 \in ProbeMethods,
     args2 \in ProbeArgs, ln \in ProbeLineNumbers}

InitLine ==
  /\ dumpFile = <<LineBlank>>
  /\ storeFile = [v \in Versions |-> NoFile]
  /\ ensuring = NotEnsuring
  /\ db = Closed
  /\ lastOp = NoOp
  /\ probe \in Probes
  /\ parsed = Skip
  /\ IndexEmpty
  /\ ParserIdle

\* The loop body applied to the line.
ProbeLine ==
  /\ parsed' = ParseLine(ProbeFields(probe))
  /\ UNCHANGED <<probe, notLine>>

SpecLine == InitLine /\ [][ProbeLine]_vars

-----------------------------------------------------------------------------
(* The class index: builds, queries and lost files *)

InitIndex ==
  /\ dumpFile = <<LineBlank>>
  /\ storeFile = [v \in Versions |-> NoFile]
  /\ ensuring = NotEnsuring
  /\ db = Closed
  /\ lastOp = NoOp
  /\ probe = NoProbe
  /\ parsed = Skip
  /\ IndexEmpty
  /\ ParserIdle

NextIndex ==
  \/ buildIndex(Trees)
  \/ buildIndexFabric
  \/ buildIndexManifest
  \/ findHierarchy(HierarchyNames, Directions)
  \/ getClass(ClassNames)
  \/ getMethod(MethodClassNames, MethodNames)
  \/ listPackages(NamespaceArgs)
  \/ listClasses(PackagePaths)
  \/ search(IndexQueries, SearchTypes)

SpecIndex == InitIndex /\ [][NextIndex]_vars

\* Searches on an index with more matches than search returns.
NextSearch ==
  \/ buildIndex({TreeWide, TreeSmall})
  \/ buildIndexFabric
  \/ buildIndexManifest
  \/ search(WideQueries, WideTypes)

SpecSearch == InitIndex /\ [][NextSearch]_vars

\* The store a complete run of parseCallgraphAndCreateDb over `lines`
\* leaves: one row for each line the loop body accepts, in the order of the
\* lines.
IngestedStore(lines) ==
  LET accepted ==
        SelectSeq([i \in 1..Len(lines) |-> ParseLine(lines[i])],
                  LAMBDA p : p.ok)
  IN [exists |-> TRUE, rows |-> [k \in 1..Len(accepted) |-> accepted[k].rec]]

\* Type headers: a class or an interface, with or without a package, type
\* parameters, a supertype and interfaces.
HeaderPackages == {<<>>, PkgP}
HeaderKinds == {"class", "interface"}
HeaderParams == {<<>>, <<"<", "T", ">">>}
HeaderSupers == {<<>>, <<"B">>, <<"B", "<", "T", ">">>, <<"p", ".", "B">>}
HeaderInterfaces == {<<>>, <<"I">>, <<"I", ",", " ", "J">>, <<"I", "<", "T", ">">>, <<"M", "<", "K", ",", " ", "V", ">">>}

\* An interface has no implements clause.
HeaderUnits ==
  {file \in
     {[path |-> "/mc1/p/A.java", dir |-> "/mc1/p", pkg |-> pkg, kind |-> kind,
       name |-> <<"A">>, params |-> params, ext |-> ext, extFqn |-> <<>>,
       impls |-> impls, implFqns |-> {}, fields |-> <<>>, methods |-> <<>>,
       nlines |-> 2] :
        pkg \in HeaderPackages, kind \in HeaderKinds, params \in HeaderParams,
        ext \in HeaderSupers, impls \in HeaderInterfaces} :
     file.kind = "class" \/ file.impls = <<>>}

InitHeader ==
  /\ dumpFile = <<LineBlank>>
  /\ storeFile = [v \in Versions |-> NoFile]
  /\ ensuring = NotEnsuring
  /\ db = Closed
  /\ lastOp = NoOp
  /\ probe = NoProbe
  /\ parsed = Skip
  /\ IndexEmpty
  /\ \E file \in HeaderUnits : parserIn = [op |-> "header", file |-> file]
  /\ parserOut = NoParse

SpecHeader == InitHeader /\ [][parseHeader]_vars

\* Parameter lists: up to MaxParams parameters, written with `, ` between.
MaxParams == 2
ParamTexts ==
  {<<"i", "n", "t", " ", "a">>,
   <<"M", "a", "p", "<", "K", ",", "V", ">", " ", "m">>,
   <<"f", "i", "n", "a", "l", " ", "i", "n", "t", "[", "]", " ", "b">>,
   <<"M", "a", "p", "<", "K", ",", "L", "i", "s", "t", "<", "V", ">", ">", " ", "n">>,
   <<"S", "t", "r", "i", "n", "g", ".", ".", ".", " ", "s">>,
   <<"@", "N", "(", "1", ")", " ", "i", "n", "t", " ", "c">>,
   <<"L", "i", "s", "t", "<", "T", ">", " ", "l">>}

RECURSIVE JoinParams(_)
JoinParams(texts) ==
  IF texts = <<>> THEN <<>>
  ELSE IF Len(texts) = 1 THEN texts[1]
  ELSE texts[1] \o <<",", " ">> \o JoinParams(Tail(texts))

ParamLists ==
  {JoinParams(texts) : texts \in UNION {[1..k -> ParamTexts] : k \in 0..MaxParams}}

InitParams ==
  /\ dumpFile = <<LineBlank>>
  /\ storeFile = [v \in Versions |-> NoFile]
  /\ ensuring = NotEnsuring
  /\ db = Closed
  /\ lastOp = NoOp
  /\ probe = NoProbe
  /\ parsed = Skip
  /\ IndexEmpty
  /\ \E paramsStr \in ParamLists :
       parserIn = [op |-> "method", paramsStr |-> paramsStr]
  /\ parserOut = NoParse

SpecParams == InitParams /\ [][extractMethods]_vars

\* Files around one method `void f()`: after the class header or at the top
\* of the text, with or without an annotation and an access modifier, with
\* bodies that close and bodies that do not.
UnitBefores == {<<>>, <<"c", "l", "a", "s", "s", " ", "A", " ", "{">>}
UnitGaps == {<<"\n">>, <<"\n", "\n", " ", " ">>}
UnitAnnotations == {<<>>, <<"@", "A">>, <<"@", "A", "(", "{", "1", "}", ")">>}
UnitModifiers == {<<>>, <<"p", "u", "b", "l", "i", "c", " ">>}
UnitBodies == {<<"{", "}">>, <<"{", "\n", "}">>, <<"{", "\n", "{", "\n", "}", "\n", "}">>, <<"{", "\n", "{", "\n", "}">>, <<"{", "\n">>}
UnitAfters == {<<>>, <<"\n", "}">>}

MethodUnits ==
  [before : UnitBefores, gap : UnitGaps, annotation : UnitAnnotations,
   modifier : UnitModifiers, signature : {<<"v", "o", "i", "d", " ", "f", "(", ")", " ">>}, body : UnitBodies,
   after : UnitAfters]

InitLines ==
  /\ dumpFile = <<LineBlank>>
  /\ storeFile = [v \in Versions |-> NoFile]
  /\ ensuring = NotEnsuring
  /\ db = Closed
  /\ lastOp = NoOp
  /\ probe = NoProbe
  /\ parsed = Skip
  /\ IndexEmpty
  /\ \E unit \in MethodUnits : parserIn = [op |-> "lines", unit |-> unit]
  /\ parserOut = NoParse

SpecLines == InitLines /\ [][extractMethodLines]_vars

\* Files with one top-level type: after nothing, a package line or a comment
\* that has the word class in it, with or without a nested type.
TextBefores == {<<>>, <<"p", "a", "c", "k", "a", "g", "e", " ", "p", ";", "\n">>, <<"/", "/", " ", "a", " ", "c", "l", "a", "s", "s", " ", "o", "f", " ", "p", "\n">>}
TextNested ==
  {<<>>, <<" ", " ", "s", "t", "a", "t", "i", "c", " ", "c", "l", "a", "s", "s", " ", "N", " ", "{", "\n", " ", " ", "}", "\n">>, <<" ", " ", "i", "n", "t", "e", "r", "f", "a", "c", "e", " ", "N", " ", "{", "\n", " ", " ", "}", "\n">>,
   <<" ", " ", "e", "n", "u", "m", " ", "N", " ", "{", "\n", " ", " ", "}", "\n">>}

\* An interface has no implements clause, an enum no extends clause.
TextUnits ==
  {unit \in [before : TextBefores, kind : TypeWords, name : {<<"A">>},
             ext : {<<>>, <<"B">>}, impls : {<<>>, <<"I", ",", " ", "J">>},
             nested : TextNested] :
     /\ unit.kind = InterfaceWord => unit.impls = <<>>
     /\ unit.kind = EnumWord => unit.ext = <<>>}

InitText ==
  /\ dumpFile = <<LineBlank>>
  /\ storeFile = [v \in Versions |-> NoFile]
  /\ ensuring = NotEnsuring
  /\ db = Closed
  /\ lastOp = NoOp
  /\ probe = NoProbe
  /\ parsed = Skip
  /\ IndexEmpty
  /\ \E unit \in TextUnits : parserIn = [op |-> "text", unit |-> unit]
  /\ parserOut = NoParse

SpecText == InitText /\ [][parseText]_vars

\* Builds of trees in which two files declare the same class of the same
\* package: twice in one namespace, once in the other.
FileA2 ==
  [path |-> "/mc2/p/A.java", dir |-> "/mc2/p",
   pkg |-> PkgP, kind |-> "interface", name |-> <<"A">>,
   params |-> <<>>,
   ext |-> <<>>, extFqn |-> <<>>,
   impls |-> <<>>,
   implFqns |-> {},
   fields |-> <<>>,
   methods |-> <<[name |-> <<"h">>, lineStart |-> 2, lineEnd |-> 2]>>,
   nlines |-> 4]

FileAF ==
  [path |-> "/fabric/p/A.java", dir |-> "/fabric/p",
   pkg |-> PkgP, kind |-> "class", name |-> <<"A">>,
   params |-> <<>>,
   ext |-> <<>>, extFqn |-> <<>>,
   impls |-> <<>>,
   implFqns |-> {},
   fields |-> <<>>,
   methods |-> <<>>,
   nlines |-> 3]

FileE2 ==
  [path |-> "/mc3/E.java", dir |-> "/mc3",
   pkg |-> <<>>, kind |-> "class", name |-> <<"E">>,
   params |-> <<>>,
   ext |-> <<>>, extFqn |-> <<>>,
   impls |-> <<>>,
   implFqns |-> {},
   fields |-> <<[name |-> <<"y">>]>>,
   methods |-> <<>>,
   nlines |-> 3]

TreeTwice ==
  [minecraft |-> <<FileB, FileA, FileG, FileA2>>, fabric |-> <<FileAF, FileF>>]
TreeTwiceDefault ==
  [minecraft |-> <<FileE, FileC, FileE2>>, fabric |-> <<>>]

NextBuild ==
  \/ buildIndex({TreeTwice, TreeTwiceDefault, TreeFull})
  \/ buildIndexFabric
  \/ buildIndexManifest

SpecBuild == InitIndex /\ [][NextBuild]_vars

\* Builds and the queries that go through getPackage, with no file lost.
NextCache ==
  \/ buildIndex(Trees)
  \/ buildIndexFabric
  \/ buildIndexManifest
  \/ getClass(ClassNames)
  \/ getMethod(MethodClassNames, MethodNames)
  \/ listClasses(PackagePaths)

SpecCache == InitIndex /\ [][NextCache]_vars

\* Caller and callee queries on stores ingested earlier.
InitRefs ==
  /\ dumpFile = <<LineBlank>>
  /\ \E first \in RefDumps, second \in RefDumps :
       storeFile = [v \in Versions |->
                      IF v = "v1" THEN IngestedStore(first)
                      ELSE IngestedStore(second)]
  /\ ensuring = NotEnsuring
  /\ db = Closed
  /\ lastOp = NoOp
  /\ probe = NoProbe
  /\ parsed = Skip
  /\ IndexEmpty
  /\ ParserIdle

NextRefs ==
  \/ findCallers(RefKeys)
  \/ findCallees(RefKeys)

SpecRefs == InitRefs /\ [][NextRefs]_vars

\* Class listings on an index whose packages share prefixes.
NextList ==
  \/ buildIndex({TreePrefix, TreeSmall})
  \/ buildIndexFabric
  \/ buildIndexManifest
  \/ listClasses(PrefixPaths)

SpecList == InitIndex /\ [][NextList]_vars

\* Concurrent tool calls on a server without an index.
NextInit ==
  \/ \E c \in Callers : ensureInitialized(c)
  \/ decompileFails
  \/ decompiled({TreeFull, TreeSmall})
  \/ initBuildFabric
  \/ initBuildManifest
  \/ initBuildFails
  \/ initialized
  \/ \E c \in Callers : resumed(c)
  \/ \E c \in Callers : handled(c)

SpecInit == InitIndex /\ [][NextInit]_vars

\* One process that builds, ingests and asks every query.
NextQueries ==
  \/ buildIndex({TreeFull})
  \/ buildIndexFabric
  \/ buildIndexManifest
  \/ ParseCallgraphAndCreateDb({"v1"}, {<<LineB, LineA>>})
  \/ findHierarchy({NameB}, {"subclasses"})
  \/ getClass({NamePA})
  \/ getMethod({NameQI}, {<<"f">>})
  \/ listPackages({Fabric})
  \/ listClasses({PkgQ})
  \/ search({<<"f">>}, {"method"})
  \/ findCallers({<<<<"a", "b">>, <<"c">>>>})
  \/ findCallees({<<<<"a">>, <<"b", "c">>>>})
  \/ searchMethods({<<"B">>}, {SearchDefaultLimit})
  \/ getCallgraphStats

SpecQueries == InitIndex /\ [][NextQueries]_vars

\* The queries on an index whose files, or whose sources, get lost.
NextAbsence ==
  \/ buildIndex({TreeFull})
  \/ buildIndexFabric
  \/ buildIndexManifest
  \/ manifestLost
  \/ shardLost
  \/ sourceLost
  \/ findHierarchy({NameB}, Directions)
  \/ getClass(AbsentClassNames)
  \/ getMethod(AbsentClassNames, {<<"f">>})
  \/ listPackages({<<>>})
  \/ listClasses({PkgP})
  \/ search({<<"f">>}, {""})

SpecAbsence == InitIndex /\ [][NextAbsence]_vars

-----------------------------------------------------------------------------
(* Claims: the call-graph store *)

ParseReturned == lastOp.op = "parse" /\ lastOp.status = "returned"

\* The records of the lines of a dump that the ingestor parses, in order.
RecordsOf(lines) ==
  LET matching == SelectSeq(lines, LAMBDA l : ParseLine(l).ok)
  IN [k \in 1..Len(matching) |-> ParseLine(matching[k]).rec]

CallerPairs(rows) ==
  {<<caller_class(rows[k]), caller_method(rows[k])>> : k \in 1..Len(rows)}

CalleePairs(rows) ==
  {<<callee_class(rows[k]), callee_method(rows[k])>> : k \in 1..Len(rows)}

\* C2: getCallgraphStats returns the number of rows of the store it read, the
\* number of distinct (caller_class, caller_method) pairs and the number of
\* distinct (callee_class, callee_method) pairs of those rows.
C2_StatsCountPairs ==
  (lastOp.op = "stats" /\ lastOp.status = "ok") =>
    lastOp.stats =
      <<Len(lastOp.read),
        Cardinality(CallerPairs(lastOp.read)),
        Cardinality(CalleePairs(lastOp.read))>>

\* C5: a query for a version whose store file does not exist fails with the
\* "database not found" error (findCallers, findCallees, searchMethods) or
\* returns null (getCallgraphStats), whatever ran before.
C5_NotIngestedFails ==
  ~storeFile[IF lastOp.ver \in Versions THEN lastOp.ver ELSE "v1"].exists =>
    /\ lastOp.op \in {"findCallers", "findCallees", "searchMethods"}
         => lastOp.status = "notfound"
    /\ lastOp.op = "stats" => lastOp.status = "null"

\* C7: after parseCallgraphAndCreateDb has thrown part-way through, the
\* store it was writing is not reported ready by hasCallgraphDb.
C7_PartialStoreNotReady ==
  (lastOp.op = "parse" /\ lastOp.status = "threw") =>
    ~hasCallgraphDb(lastOp.ver)

\* The lines the ingestor is documented to count.
Counted(line) ==
  /\ line # <<<<>>>>
  /\ ~(Len(line[1]) > 0 /\ line[1][1] = "#")
  /\ Len(line) >= 5
  /\ MatchCaller(line[3]).ok
  /\ MatchCallee(line[4]).ok

RECURSIVE SumSeq(_)
SumSeq(s) == IF s = <<>> THEN 0 ELSE Head(s) + SumSeq(Tail(s))

\* C8: parseCallgraphAndCreateDb returns the number of counted lines; the
\* store then holds one row per counted line, in dump order; the rows were
\* inserted in batches of exactly BatchSize rows but for a smaller last one.
C8_CountRowsBatches ==
  ParseReturned =>
    LET lines == lastOp.args[1]
        counted == SelectSeq(lines, Counted)
        rows == storeFile[lastOp.ver].rows
        batches == lastOp.batches
    IN /\ lastOp.count = Len(counted)
       /\ Len(rows) = lastOp.count
       /\ rows = [k \in 1..Len(counted) |-> ParseLine(counted[k]).rec]
       /\ \A k \in 1..Len(batches) :
            /\ batches[k] >= 1
            /\ batches[k] <= BatchSize
            /\ k < Len(batches) => batches[k] = BatchSize
       /\ SumSeq(batches) = lastOp.count

\* C8 witness: a dump with skipped lines, ingested in a full batch and a
\* partial one.
C8_Witness ==
  /\ ParseReturned
  /\ Len(lastOp.batches) = 2
  /\ lastOp.batches[2] < BatchSize
  /\ lastOp.count < Len(lastOp.args[1])

\* C9: a line T:m(args) / (CALLTYPE)T2:m2(args2) / line gives the record
\* (T, m, (args), T2, m2, (args2), line as an integer, or null when empty).
C9_RecordFields ==
  parsed.ok =>
    parsed.rec =
      <<probe.T, probe.m, <<"(">> \o probe.args \o <<")">>,
        probe.T2, probe.m2, <<"(">> \o probe.args2 \o <<")">>,
        probe.lineValue>>

C9_Witness ==
  /\ parsed.ok
  /\ probe.T = <<"a", ".", "B">>
  /\ probe.args2 = <<"x", ",", "y">>
  /\ probe.calltype = <<"V", "I", "R">>
  /\ probe.lineValue = <<"int", 42>>

\* C10: after parseCallgraphAndCreateDb returns, the store file of the
\* version holds exactly the records parsed from the dump just ingested.
C10_StoreReplaced ==
  ParseReturned => storeFile[lastOp.ver].rows = RecordsOf(lastOp.args[1])

\* C10 witness: the ingest replaced a store with other, non-empty content.
C10_Witness ==
  /\ ParseReturned
  /\ lastOp.prior.exists
  /\ lastOp.prior.rows # <<>>
  /\ lastOp.prior.rows # storeFile[lastOp.ver].rows


-----------------------------------------------------------------------------
(* Claims: the class index *)

\* The store holds what is on disk: the memoized manifest is the manifest
\* file and every cached shard is the shard file of its package.
StoreCurrent ==
  /\ store.manifest.present =>
       manifestFile.state = "ok" /\ store.manifest = manifestFile.content
  /\ \A path \in DOMAIN shardFiles :
       CacheHas(store.packageCache, cacheKey(path[1], path[2])) =>
         /\ shardFiles[path].state = "ok"
         /\ shardFiles[path].content =
              CacheGet(store.packageCache, cacheKey(path[1], path[2]))

\* The classes the last build indexed: the files on disk that parse.
IndexedFiles ==
  {f \in Range(build.tree.minecraft) \cup Range(build.tree.fabric) :
     parseJavaContent(f).ok}

IndexedName(f) == QualifiedName(PackageOf(f), f.name)

ListedNames == {idxOp.list[k][1] : k \in 1..Len(idxOp.list)}

\* C1: the excerpt getMethod returns for a recorded method is the source
\* lines numbered max(1, lineStart - 3) through min(totalLines, lineEnd + 3),
\* 1-based and inclusive, of the class's source file.
C1_ExcerptLines ==
  (idxOp.op = "getMethod" /\ idxOp.status = "returned") =>
    idxOp.excerpt =
      SubSeq(idxOp.source, Max(1, idxOp.method.lineStart - 3),
             Min(Len(idxOp.source), idxOp.method.lineEnd + 3))

\* C3: when an indexed class declares `extends B` (`implements I`) and q is
\* the fully qualified name of B (of I), findHierarchy(q, 'subclasses')
\* (findHierarchy(q, 'implementors')) lists the qualified name of that class.
C3_HierarchyByQualifiedName ==
  (idxOp.op = "findHierarchy" /\ build.phase = "done" /\ StoreCurrent) =>
    \A f \in IndexedFiles :
      /\ (idxOp.direction = "subclasses" /\ f.ext # <<>>
            /\ f.extFqn = idxOp.className)
           => IndexedName(f) \in ListedNames
      /\ (idxOp.direction = "implementors" /\ idxOp.className \in f.implFqns)
           => IndexedName(f) \in ListedNames

\* The classes of the packages a manifest lists, as <<visit, position>>
\* pairs into shards[visit], whose recorded super is X.
RecordedSubclasses(shards, X) ==
  {vk \in UNION {{<<v, k>> : k \in 1..Len(shards[v])} : v \in 1..Len(shards)} :
     shards[vk[1]][vk[2]][2].super = X}

\* The shards the store holds for the packages of the manifest the last
\* query used, and the shard files of those packages.
StoreShards ==
  LET visits == ManifestPackages(idxOp.manifest)
  IN [v \in 1..Len(visits) |-> PackageClasses(store.packageCache, visits[v])]

DiskShards ==
  LET visits == ManifestPackages(idxOp.manifest)
  IN [v \in 1..Len(visits) |->
        IF ShardLoads(visits[v][1], visits[v][2])
        THEN loadPackageIndex(visits[v][1], visits[v][2]) ELSE <<>>]

SubclassNames(shards, X) ==
  LET visits == ManifestPackages(idxOp.manifest)
  IN {QualifiedName(visits[vk[1]][2], shards[vk[1]][vk[2]][1]) :
        vk \in RecordedSubclasses(shards, X)}

\* C4: findHierarchy(X, 'subclasses') returns the qualified names of exactly
\* the classes, over every package the manifest lists in both namespaces,
\* whose recorded super equals X, one entry per class, and the empty
\* sequence when no class records X; the classes are those of the shards
\* the store holds, which are the shard files when the store is current.
C4_SubclassesExact ==
  (idxOp.op = "findHierarchy" /\ idxOp.direction = "subclasses") =>
    /\ ListedNames = SubclassNames(StoreShards, idxOp.className)
    /\ Len(idxOp.list) =
         Cardinality(RecordedSubclasses(StoreShards, idxOp.className))
    /\ StoreCurrent =>
         /\ ListedNames = SubclassNames(DiskShards, idxOp.className)
         /\ Len(idxOp.list) =
              Cardinality(RecordedSubclasses(DiskShards, idxOp.className))

\* Both namespaces list a subclass of the class asked for.
C4_Witness ==
  /\ idxOp.op = "findHierarchy"
  /\ idxOp.direction = "subclasses"
  /\ StoreCurrent
  /\ idxOp.className = NameB
  /\ Len(idxOp.list) = 2
  /\ \E f \in IndexedFiles : f.impls # <<>>

SequenceOps ==
  {"search", "listClasses", "listPackages", "findHierarchy"}

\* The last query met an absence getClass answers with null: no manifest
\* to read, no shard to read for the package, a simple name that is not a
\* key of the shard, or no source file at the recorded path.
ClassAbsent ==
  LET resolved == parseClassName(idxOp.className)
      key == cacheKey(resolved.namespace, resolved.packageName)
  IN \/ ~idxOp.manifest.present
     \/ ~CacheHas(store.packageCache, key)
     \/ ~HasProperty(CacheGet(store.packageCache, key),
                     resolved.simpleClassName)
     \/ ~SourceExists(OwnProperty(CacheGet(store.packageCache, key),
                                  resolved.simpleClassName).sourcePath)

QueryAnswered ==
  /\ idxOp.status # "threw"
  /\ (idxOp.op \in SequenceOps /\ ~idxOp.manifest.present) => idxOp.list = <<>>
  /\ (idxOp.op \in {"getClass", "getMethod"} /\ ClassAbsent) =>
       idxOp.status = "null"

\* C6: no query throws for absence.  Every query returns; with no manifest
\* to read the sequence operations return the empty sequence, and getClass
\* and getMethod return null when the manifest or the shard of the package
\* cannot be read, when the simple name is not a key of the shard, or when
\* the source file is missing.
C6_AbsenceNeverThrows ==
  idxOp.op \in SequenceOps \cup {"getClass", "getMethod"} => QueryAnswered


\* The shard files a run writes: those of the packages it recognised.
WrittenPaths ==
  {path \in DOMAIN shardFiles :
     \/ path[1] = Minecraft /\ HasProperty(build.minecraftPackages, path[2])
     \/ path[1] = Fabric /\ HasProperty(build.fabricPackages, path[2])}

\* The last run is over, and it was a second run on the source tree of the
\* run completed before it.
RebuiltUnchanged ==
  /\ build.phase = "done"
  /\ build.prior.done
  /\ build.prior.tree = build.tree

RecognisedPackages(files) ==
  {PackageOf(f) : f \in {g \in Range(files) : parseJavaContent(g).ok}}

StrictlySorted(names) ==
  \A i, j \in 1..Len(names) : i < j => StringLess(names[i], names[j])

ManifestListOk(names, namespace, files) ==
  /\ StrictlySorted(names)
  /\ Range(names) = RecognisedPackages(files)
  /\ \A k \in 1..Len(names) :
       /\ getPackageIndexPath(namespace, names[k]) \in DOMAIN shardFiles
       /\ shardFiles[getPackageIndexPath(namespace, names[k])].state = "ok"

\* Every shard of the run in flight is on disk.
RunShardsWritten ==
  \A path \in WrittenPaths :
    shardFiles[path] =
      WrittenFile(OwnProperty(IF path[1] = Minecraft
                              THEN build.minecraftPackages
                              ELSE build.fabricPackages, path[2]))

\* C12: after a completed buildIndex run each namespace list of the manifest
\* on disk is the sorted sequence of exactly the packages in which the run
\* recognised a class ('default' for the classes without a package), every
\* listed name has a shard file, and the manifest is written only when every
\* shard of the run has been written.
C12_ManifestAfterShards ==
  /\ [](build.phase = "done" =>
          /\ manifestFile.state = "ok"
          /\ ManifestListOk(manifestFile.content.minecraft, Minecraft,
                            build.tree.minecraft)
          /\ ManifestListOk(manifestFile.content.fabric, Fabric,
                            build.tree.fabric))
  /\ [][manifestFile' # manifestFile => RunShardsWritten]_vars

\* Two builds completed, the second with a package-less class and with
\* packages recognised out of order.
C12_Witness ==
  /\ build.phase = "done"
  /\ build.prior.done
  /\ build.tree = TreeSmall
  /\ manifestFile.content.minecraft = <<DefaultPackage, PkgQ>>
  /\ Keys(build.minecraftPackages) = <<PkgQ, DefaultPackage>>

\* The packages the manifest of the last query lists for a namespace.
ListedPackages(manifest, namespace) ==
  IF namespace = Minecraft THEN manifest.minecraft ELSE manifest.fabric

\* C13: getClass and getMethod return null for a qualified name whose
\* package the manifest does not list for the resolved namespace, also when
\* a shard file of that package is on disk.
C13_ManifestOnly ==
  (idxOp.op \in {"getClass", "getMethod"} /\ idxOp.manifest.present) =>
    LET resolved == parseClassName(idxOp.className)
    IN ~Includes(ListedPackages(idxOp.manifest, resolved.namespace),
                 resolved.packageName)
         => idxOp.status = "null"


\* The matches of the last search in the shards the store holds, each by its
\* place: <<package visited, class of the shard, kind, member>>, the kinds
\* being 1 the class name, 2 a field, 3 a method.
SearchPlaces ==
  LET query == ToLower(idxOp.className)
      type == idxOp.direction
      hit(name) == Contains(ToLower(name), query)
      classPlaces ==
        UNION {{<<v, c>> : c \in 1..Len(StoreShards[v])} :
                 v \in 1..Len(StoreShards)}
      info(vc) == StoreShards[vc[1]][vc[2]][2]
  IN UNION {
       {<<vc[1], vc[2], 1, 1>> : x \in
          {y \in {1} : type \in {"", "class"}
                         /\ hit(StoreShards[vc[1]][vc[2]][1])}}
       \cup {<<vc[1], vc[2], 2, i>> : i \in
          {j \in 1..Len(info(vc).fields) :
             type \in {"", "field"} /\ hit(info(vc).fields[j].name)}}
       \cup {<<vc[1], vc[2], 3, i>> : i \in
          {j \in 1..Len(info(vc).methods) :
             type \in {"", "method"} /\ hit(info(vc).methods[j].name)}}
       : vc \in classPlaces}

\* Encounter order: a place comes before another.
PlaceBefore(a, b) ==
  \E k \in 1..4 : a[k] < b[k] /\ \A j \in 1..(k - 1) : a[j] = b[j]

\* The result search gives for a place.
PlaceResult(place) ==
  LET visits == ManifestPackages(idxOp.manifest)
      entry == StoreShards[place[1]][place[2]]
      fullName == QualifiedName(visits[place[1]][2], entry[1])
  IN IF place[3] = 1
     THEN <<"class", fullName, entry[1], entry[2].sourcePath>>
     ELSE IF place[3] = 2
     THEN <<"field", fullName, entry[2].fields[place[4]].name,
            entry[2].sourcePath>>
     ELSE <<"method", fullName, entry[2].methods[place[4]].name,
            entry[2].sourcePath>>

\* C14: search(query, type) returns the first 50 elements, all when there
\* are fewer, of the matches in encounter order: minecraft packages in
\* manifest order then fabric ones, classes in shard order, per class the
\* class-name match, then the field matches, then the method matches in
\* declaration order; a match is a case-insensitive substring hit of the
\* kind asked for, and nothing matching gives the empty sequence.
C14_SearchFirstFifty ==
  idxOp.op = "search" =>
    /\ idxOp.status = "returned"
    /\ Len(idxOp.list) = Min(50, Cardinality(SearchPlaces))
    /\ \A k \in 1..Len(idxOp.list) :
         \E place \in SearchPlaces :
           /\ Cardinality({q \in SearchPlaces : PlaceBefore(q, place)}) = k - 1
           /\ idxOp.list[k] = PlaceResult(place)

\* A search with matches in both namespaces, more than 50 in all, cut among
\* the methods of a class whose fields matched too.
C14_Witness ==
  /\ idxOp.op = "search"
  /\ Cardinality(SearchPlaces) > 50
  /\ Len(idxOp.list) = 50
  /\ idxOp.list[50][1] = "method"
  /\ \E k \in 1..50 : idxOp.list[k][1] = "field"
  /\ \E place \in SearchPlaces :
       ManifestPackages(idxOp.manifest)[place[1]][1] = Fabric


\* The initialisation state: Uninitialized, Initializing, Ready.
InitState ==
  IF tools.isInitialized THEN "Ready"
  ELSE IF tools.initPromise = "null" THEN "Uninitialized"
  ELSE "Initializing"

\* C15: with several tool calls in flight on a server that is not
\* initialised, the decompile/build sequence is started at most once, every
\* caller that waits waits for that one initialisation, the state only
\* moves Uninitialized -> Initializing -> Ready, and no buildIndex run is
\* started while another one is running.
C15_SingleInitialisation ==
  /\ [](/\ tools.started <= 1
        /\ ~tools.overlapped
        /\ tools.body # "none" => tools.initPromise = "pending"
        /\ \A c \in Callers :
             tools.caller[c] = "awaiting" =>
               tools.started = 1 /\ InitState # "Uninitialized"
        /\ \A c \in Callers : tools.caller[c] = "ready" => InitState = "Ready")
  /\ [][/\ tools.isInitialized => tools'.isInitialized
        /\ tools.initPromise # "null" => tools'.initPromise # "null"
        /\ tools'.isInitialized /\ ~tools.isInitialized =>
             tools.initPromise = "pending"]_vars

\* Three callers wait for one initialisation whose buildIndex is running.
C15_Witness ==
  /\ tools.body = "building"
  /\ build.phase = "fabric"
  /\ \A c \in Callers : tools.caller[c] = "awaiting"
  /\ tools.started = 1


\* The positions, in rising order, of the rows of `rows` whose columns at
\* `cls` and `mth` are the two arguments of the last call.
HitPositions(rows, cls, mth) ==
  SelectSeq([i \in 1..Len(rows) |-> i],
            LAMBDA i : /\ rows[i][cls] = lastOp.args[1]
                       /\ rows[i][mth] = lastOp.args[2])

\* The last call answered k refs taken from the rows at the first k of the
\* positions `hits`, columns from `side` on, with k the smaller of 100 and
\* the number of hits.
RefsOfRows(hits, side) ==
  /\ Len(lastOp.rows) = IF Len(hits) <= 100 THEN Len(hits) ELSE 100
  /\ \A k \in 1..Len(lastOp.rows) :
       LET row == lastOp.read[hits[k]]
           ref == lastOp.rows[k]
       IN /\ ref[1] = row[side]
          /\ ref[2] = row[side + 1]
          /\ ref[3] = row[side + 2]
          /\ ref[4] = row[side] \o <<".">> \o row[side + 1]
          /\ ref[5] = row[7]

\* C16: findCallers(type, method) returns one MethodRef per row of the open
\* store whose callee class and method equal the arguments exactly, with the
\* caller class, method and descriptor, the line number and fullName =
\* class.method of that row; all of them when there are at most 100, and
\* 100 of them otherwise.  findCallees does the same with the sides
\* exchanged.
C16_RefsOfExactRows ==
  /\ lastOp.op = "findCallers" /\ lastOp.status = "ok" =>
       RefsOfRows(HitPositions(lastOp.read, 4, 5), 1)
  /\ lastOp.op = "findCallees" /\ lastOp.status = "ok" =>
       RefsOfRows(HitPositions(lastOp.read, 1, 2), 4)

\* A call that found more than 100 rows, in a store that has rows differing
\* from them in the case of the class.
C16_Witness ==
  /\ lastOp.op = "findCallers"
  /\ lastOp.status = "ok"
  /\ Len(HitPositions(lastOp.read, 4, 5)) > 100
  /\ Len(lastOp.rows) = 100
  /\ \E i \in 1..Len(lastOp.read) :
       /\ ToLower(lastOp.read[i][4]) = ToLower(lastOp.args[1])
       /\ lastOp.read[i][4] # lastOp.args[1]


\* The number of `open` less the number of `close` before position i of s.
Depth(s, i, open, close) ==
  Cardinality({j \in 1..(i - 1) : s[j] \in open})
    - Cardinality({j \in 1..(i - 1) : s[j] \in close})

\* The positions of the commas of s outside the brackets, in rising order.
TopCommas(s, open, close) ==
  SelectSeq([i \in 1..Len(s) |-> i],
            LAMBDA i : s[i] = "," /\ Depth(s, i, open, close) = 0)

\* The groups that the commas outside the brackets separate.
TopGroups(s, open, close) ==
  LET commas == TopCommas(s, open, close)
      from(k) == IF k = 1 THEN 1 ELSE commas[k - 1] + 1
      to(k) == IF k > Len(commas) THEN Len(s) ELSE commas[k] - 1
  IN [k \in 1..(Len(commas) + 1) |-> SubSeq(s, from(k), to(k))]

\* A type as written, without its type arguments, array markers and white
\* space.
NameAsWritten(type) ==
  LET kept == SelectSeq([i \in 1..Len(type) |-> i],
                        LAMBDA i : /\ Depth(type, i, {"<"}, {">"}) = 0
                                   /\ type[i] \notin {"<", "[", "]"}
                                   /\ type[i] \notin Whitespace)
  IN [k \in 1..Len(kept) |-> type[kept[k]]]

NamesAsWritten(list) ==
  IF list = <<>> THEN <<>>
  ELSE LET groups == TopGroups(list, {"<"}, {">"})
       IN [k \in 1..Len(groups) |-> NameAsWritten(groups[k])]

\* C17: for a well-formed declaration of one type, parseJavaContent returns
\* the declared package (empty without a package statement), the declared
\* type name, super = the name after `extends` and interfaces = the names
\* after `implements`, as written but for type arguments and array markers,
\* also when the type or its supertype has type parameters.
C17_HeaderAsWritten ==
  parserOut.op = "header" =>
    LET file == parserIn.file
        result == parserOut.parsed
    IN /\ result.ok
       /\ result.packageName = file.pkg
       /\ result.className = file.name
       /\ result.info.super =
            (IF file.ext = <<>> THEN NullName ELSE NameAsWritten(file.ext))
       /\ result.info.interfaces = NamesAsWritten(file.impls)


\* C18: for every method declaration the parser records, the number of its
\* params is the number of groups that the commas outside generic brackets
\* and parentheses separate in its parameter list: a comma inside brackets
\* never splits a parameter and no group is dropped.
C18_ParamsPerGroup ==
  parserOut.op = "method" =>
    \A k \in 1..Len(parserOut.methods) :
      Len(parserOut.methods[k].params) =
        (IF Trim(parserIn.paramsStr) = <<>> THEN 0
         ELSE Len(TopGroups(parserIn.paramsStr, {"<", "("}, {">", ")"})))


\* The places of the methods of `methods` named `methodName`, and of those
\* named so but for the case.
ExactAt(methods, methodName) ==
  {k \in 1..Len(methods) : methods[k].name = methodName}

FoldedAt(methods, methodName) ==
  {k \in 1..Len(methods) : ToLower(methods[k].name) = ToLower(methodName)}

Least(S) == CHOOSE k \in S : \A j \in S : k <= j

\* C19: getMethod(qualifiedName, methodName) returns null when getClass
\* finds no class; otherwise the first declared method named methodName
\* exactly; when there is none, the first one named so ignoring case; null
\* when there is none either.  An exact match wins over an earlier method
\* that matches ignoring case.
C19_ExactThenFolded ==
  idxOp.op = "getMethod" =>
    LET found == GetClass(idxOp.className)
        methods == found.info.methods
        exact == ExactAt(methods, idxOp.methodName)
        folded == FoldedAt(methods, idxOp.methodName)
    IN IF found.status # "returned" THEN idxOp.status = "null"
       ELSE IF exact # {}
       THEN idxOp.status = "returned" /\ idxOp.method = methods[Least(exact)]
       ELSE IF folded # {}
       THEN idxOp.status = "returned" /\ idxOp.method = methods[Least(folded)]
       ELSE idxOp.status = "null"

\* getMethod answered a method declared after one whose name differs from
\* the argument in case only.
C19_Witness ==
  /\ idxOp.op = "getMethod"
  /\ idxOp.status = "returned"
  /\ idxOp.method.name = idxOp.methodName
  /\ \E k \in FoldedAt(idxOp.info.methods, idxOp.methodName) :
       /\ idxOp.info.methods[k].name # idxOp.methodName
       /\ k < Least(ExactAt(idxOp.info.methods, idxOp.methodName))


\* packageName is packagePath, or lies below it, ignoring case.
AtOrBelow(packageName, packagePath) ==
  LET p == ToLower(packageName)
      q == ToLower(packagePath)
  IN \/ p = q
     \/ /\ Len(p) > Len(q)
        /\ \A k \in 1..Len(q) : p[k] = q[k]
        /\ p[Len(q) + 1] = "."

\* The classes of the packages at or below the argument of the last
\* listClasses, by <<package visited, class of the shard>>.
ListedPlaces ==
  LET visits == ManifestPackages(idxOp.manifest)
  IN UNION {{<<v, c>> : c \in 1..Len(StoreShards[v])} :
              v \in {w \in 1..Len(visits) :
                       AtOrBelow(visits[w][2], idxOp.className)}}

\* C20: listClasses(prefix) returns the classes of exactly the packages p the
\* manifest lists, in either namespace, with lower(p) = lower(prefix) or
\* lower(p) starting with lower(prefix) + '.'; a package that only shares
\* the prefix as text is left out; each class comes once, with className =
\* p + '.' + simpleName.
C20_PackagesAtOrBelow ==
  idxOp.op = "listClasses" =>
    LET visits == ManifestPackages(idxOp.manifest)
        entry(place) ==
          LET class == StoreShards[place[1]][place[2]]
          IN <<visits[place[1]][2] \o <<".">> \o class[1], class[1],
               class[2].sourcePath>>
    IN /\ idxOp.status = "returned"
       /\ Len(idxOp.list) = Cardinality(ListedPlaces)
       /\ {idxOp.list[k] : k \in 1..Len(idxOp.list)} =
            {entry(place) : place \in ListedPlaces}

\* A listing of two packages, the argument differing in case from the
\* package, with the manifest listing a third package that starts with the
\* argument as text.
C20_Witness ==
  /\ idxOp.op = "listClasses"
  /\ Len(idxOp.list) = 2
  /\ \E k \in 1..Len(idxOp.manifest.minecraft) :
       LET p == ToLower(idxOp.manifest.minecraft[k])
       IN /\ StartsWith(p, ToLower(idxOp.className))
          /\ ~AtOrBelow(p, idxOp.className)
  /\ \E k \in 1..Len(idxOp.manifest.minecraft) :
       /\ ToLower(idxOp.manifest.minecraft[k]) = ToLower(idxOp.className)
       /\ idxOp.manifest.minecraft[k] # idxOp.className


\* The triple of a ref is on a side of the row, and its class or its method
\* holds the query as it is written, ignoring case.
HoldsLiterally(ref, row, query) ==
  /\ \/ <<ref[1], ref[2], ref[3]>> =
          <<caller_class(row), caller_method(row), caller_desc(row)>>
     \/ <<ref[1], ref[2], ref[3]>> =
          <<callee_class(row), callee_method(row), callee_desc(row)>>
  /\ \/ Contains(ToLower(ref[1]), ToLower(query))
     \/ Contains(ToLower(ref[2]), ToLower(query))

\* C21: searchMethods(query, limit) returns at most `limit` MethodRefs, each
\* a (type, method, descriptor) triple of the caller or callee side of a row,
\* whose type or method contains `query` as a literal substring ignoring
\* case, and no triple twice.
C21_LiteralSubstring ==
  lastOp.op = "searchMethods" /\ lastOp.status = "ok" =>
    /\ Cardinality(lastOp.refs) <= lastOp.args[2]
    /\ \A ref \in lastOp.refs :
         \E k \in 1..Len(lastOp.read) :
           HoldsLiterally(ref, lastOp.read[k], lastOp.args[1])


IndexQueryOps ==
  {"search", "listClasses", "listPackages", "getClass", "getMethod",
   "findHierarchy"}

CallgraphQueryOps == {"findCallers", "findCallees", "searchMethods", "stats"}

C23_IngestNotUnderHandle ==
  [][\A v \in Versions :
       storeFile'[v] # storeFile[v] => ~(db.open /\ db.ver = v)]_vars


\* C24: in parseCallgraphAndCreateDb the two lookup indexes, idx_callee and
\* idx_caller, are created after the last batch has been inserted and not
\* before the first insert.
C24_IndexesAfterInserts ==
  (lastOp.op = "parse" /\ lastOp.status = "returned"
     /\ Len(lastOp.batches) >= 1) =>
    /\ lastOp.indexes = {"idx_callee", "idx_caller"}
    /\ lastOp.indexedAfter = Len(lastOp.batches)


\* The 0-based indexes, from `open` on, of the closing braces at which the
\* brace depth counted from `open` is zero.
ClosesFrom(content, open) ==
  {i \in open..(Len(content) - 1) :
     /\ content[i + 1] = "}"
     /\ Cardinality({k \in (open + 1)..(i + 1) : content[k] = "{"})
          = Cardinality({k \in (open + 1)..(i + 1) : content[k] = "}"})}

\* C25: for a recorded method with a body, lineEnd is the 1-based line of
\* the `}` at which the brace depth, counted forward from the `{` that
\* follows the signature, first returns to zero, braces before that `{` not
\* being counted; without a balanced close lineEnd = lineStart + 10.
C25_LineEndAtBodyClose ==
  parserOut.op = "lines" =>
    LET content == UnitContent(parserIn.unit)
        closes == ClosesFrom(content, BodyIndex(parserIn.unit))
    IN IF closes # {}
       THEN parserOut.lineEnd = LineOfIndex(content, Least(closes))
       ELSE parserOut.lineEnd = parserOut.lineStart + 10


\* The shard the store holds for the package of the class the last getClass
\* or getMethod asked for.
AskedKey ==
  LET resolved == parseClassName(idxOp.className)
  IN cacheKey(resolved.namespace, resolved.packageName)

AskedPath ==
  LET resolved == parseClassName(idxOp.className)
  IN <<resolved.namespace, resolved.packageName>>

\* C26: a shard that getPackage has loaded stays in packageCache as it was
\* loaded for the lifetime of the store, every later reference to its key is
\* answered from the cache and not from the shard file, and two different
\* (namespace, packageName) pairs never share an entry.
C26_ShardsStayCached ==
  /\ [][\A e \in store.packageCache : e \in store'.packageCache]_vars
  /\ [](/\ \A e1 \in store.packageCache, e2 \in store.packageCache :
             e1.key = e2.key => e1 = e2
        /\ \A p1 \in ShardPaths, p2 \in ShardPaths :
             p1 # p2 => cacheKey(p1[1], p1[2]) # cacheKey(p2[1], p2[2])
        /\ (idxOp.op \in {"getClass", "getMethod"}
              /\ idxOp.status = "returned") =>
             /\ CacheHas(store.packageCache, AskedKey)
             /\ idxOp.info =
                  OwnProperty(CacheGet(store.packageCache, AskedKey),
                              parseClassName(idxOp.className).simpleClassName))

\* getClass answered a class from a cached shard after a build had written
\* another shard file for that package.
C26_Witness ==
  /\ idxOp.op = "getClass"
  /\ idxOp.status = "returned"
  /\ CacheHas(store.packageCache, AskedKey)
  /\ shardFiles[AskedPath].state = "ok"
  /\ shardFiles[AskedPath].content # CacheGet(store.packageCache, AskedKey)


\* C27: a call-graph query called with version v reads the store of version
\* v: the handle openDb(v) has returned to it is open on the store file of v,
\* never on the store of a version an earlier call used.
C27_HandleOfAskedVersion ==
  (lastOp.op \in {"findCallers", "findCallees", "searchMethods"}
     /\ lastOp.status = "ok") =>
    /\ db.open
    /\ db.ver = lastOp.ver


\* C28: when the first initialisation rejects, initPromise is never cleared:
\* it stays the rejected promise, every later ensureInitialized call gets
\* that promise and throws, no second initialisation is started, and the
\* state never becomes Ready.
C28_RejectedForGood ==
  /\ [](tools.initPromise = "rejected" =>
          /\ ~tools.isInitialized
          /\ tools.body = "none"
          /\ tools.started = 1
          /\ \A c \in Callers : tools.caller[c] # "ready")
  /\ [][/\ tools.started = 1 => tools'.started = 1
        /\ tools.initPromise = "rejected" => tools'.initPromise = "rejected"
        /\ (tools.body # "none" /\ tools'.body = "none"
              /\ ~tools'.isInitialized) => tools'.initPromise = "rejected"]_vars

\* A call made after the initialisation was rejected has thrown, while the
\* index is still not there.
C28_Witness ==
  /\ tools.lateCall
  /\ tools.initPromise = "rejected"
  /\ \A c \in Callers : tools.caller[c] = "threw"
  /\ ~isReady


\* The kind a type keyword stands for.
KindOfWord(word) ==
  IF word = InterfaceWord THEN "interface"
  ELSE IF word = EnumWord THEN "enum" ELSE "class"

\* C29: className, kind, super and interfaces of a ParsedClass describe one
\* type header, the first of the text: the name and the kind are those of
\* the top-level declaration, whatever type is nested in it and whatever
\* word follows `class` in a comment before it, and the supertype and the
\* interfaces are those of that same declaration.
C29_OneHeader ==
  (parserOut.op = "text" /\ parserOut.parsed.ok) =>
    LET unit == parserIn.unit
        written == Split(unit.impls, ",")
    IN /\ parserOut.parsed.className = unit.name
       /\ parserOut.parsed.kind = KindOfWord(unit.kind)
       /\ parserOut.parsed.super =
            (IF unit.ext = <<>> THEN NullName ELSE unit.ext)
       /\ parserOut.parsed.interfaces =
            (IF unit.impls = <<>> THEN <<>>
             ELSE [k \in 1..Len(written) |-> Trim(written[k])])


\* The files of the last buildIndex run that parseJavaFile parsed, in the
\* order the run scanned them: minecraft is 1, fabric is 2.
ScanNamespaces == <<Minecraft, Fabric>>

ParsedOfScan(n) ==
  SelectSeq(idxOp.scan[n], LAMBDA f : parseJavaContent(f).ok)

\* The (namespace, packageName, simpleName) keys of the parsed files.
ParsedKeys ==
  UNION {{<<ScanNamespaces[n], ParsedOfScan(n)[k].pkg, ParsedOfScan(n)[k].name>> :
            k \in 1..Len(ParsedOfScan(n))} : n \in 1..2}

\* The position in the scan of namespace n of the last parsed file that
\* declares the class of the parsed file at position k.
LastScanned(n, k) ==
  LET files == ParsedOfScan(n)
      same == {j \in 1..Len(files) :
                 files[j].pkg = files[k].pkg /\ files[j].name = files[k].name}
  IN CHOOSE j \in same : \A i \in same : i <= j

RECURSIVE SumOfCounts(_)
SumOfCounts(paths) ==
  IF paths = {} THEN 0
  ELSE LET path == CHOOSE p \in paths : TRUE
       IN Len(shardFiles[path].content) + SumOfCounts(paths \ {path})

\* C30: totalClasses of a buildIndex run is the number of distinct
\* (namespace, packageName, simpleName) keys of the files that parsed, and
\* the sum of the class counts of the shards the run wrote; of the files of
\* one namespace that declare the same class of the same package the shard
\* holds the declaration of the one scanned last; a file that does not parse
\* is in no shard and in no count.
C30_TotalOfDistinctKeys ==
  (build.phase = "done" /\ idxOp.op = "buildIndex") =>
    /\ build.totalClasses = Cardinality(ParsedKeys)
    /\ build.totalClasses = SumOfCounts(WrittenPaths)
    /\ \A n \in 1..2 :
         LET files == ParsedOfScan(n)
         IN /\ \A k \in 1..Len(files) :
                 LET shard ==
                       shardFiles[getPackageIndexPath(ScanNamespaces[n],
                                                      PackageOf(files[k]))]
                 IN /\ shard.state = "ok"
                    /\ HasProperty(shard.content, files[k].name)
                    /\ OwnProperty(shard.content, files[k].name) =
                         parseJavaContent(files[LastScanned(n, k)]).info
            /\ \A path \in WrittenPaths :
                 path[1] = ScanNamespaces[n] =>
                   Range(Keys(shardFiles[path].content)) =
                     {files[k].name :
                        k \in {j \in 1..Len(files) :
                                 PackageOf(files[j]) = path[2]}}

\* A run has scanned /mc1/p/A.java, then /mc2/p/A.java, which declares the
\* same class, and a file that does not parse.
C30_Witness ==
  /\ build.phase = "done"
  /\ idxOp.op = "buildIndex"
  /\ build.tree = TreeTwice
  /\ \E i, j \in 1..Len(idxOp.scan[1]) :
       /\ i < j
       /\ idxOp.scan[1][i] = FileA
       /\ idxOp.scan[1][j] = FileA2
  /\ FileG \in Range(idxOp.scan[1])
  /\ build.totalClasses = 4

====
